---- MODULE Spec2Model ----
(***************************************************************************)
(* Dual-store thread synchronisation of deep-agents-ui.                     *)
(*                                                                         *)
(*   Part I    useThreadPersistence (src/app/hooks/useThreadPersistence.ts) *)
(*             thread creation effect, message sync effect, file sync      *)
(*             effect of one mounted hook instance.                        *)
(*             Specifications Spec, SpecCreate, SpecSync, SpecHealth       *)
(*   Part II   useChat thread id resolution effect.       SpecResolve       *)
(*   Part III  useChat fallback loader.                   SpecFallback      *)
(*   Part IV   useChat sendMessage, upgrade path.         SpecSend          *)
(*   Part V    useChat persistent-only history.           SpecService       *)
(*   Part VI   thread list (useThreads, ThreadList).      SpecList          *)
(*   Part VII  ChatInterface: both hooks on one raw id.   SpecOpen          *)
(*   Part VIII useChat: the callbacks given to useStream. SpecIdentity      *)
(*                                                                         *)
(* React runs the cleanups of the effects whose dependencies changed and    *)
(* then their bodies in one commit, so a render is one action.  Every await *)
(* of the code is a position (pc) of the flow that executes it.             *)
(***************************************************************************)
EXTENDS Integers, Sequences, FiniteSets, TLC

\* ------------------------------------------------------------------ bounds
MaxMessages == 2
MaxChanges == 2
MaxNavigations == 3
MaxStreamChanges == 2
MaxHistory == 1
MaxStreamMessages == 1
MaxSends == 2
MaxPages == 2
MaxListEvents == 2

\* ------------------------------------------------------------- identifiers
THREAD == "exec-1"
NoId == 0
PreExistingId == 1
\* a localStorage item that JSON.parse rejects
CorruptItem == -1
NoFiles == << >>
\* An identifier is kept by its shape: the lengths of its dash-separated groups,
\* whether every character is a hexadecimal digit, and a serial number n.
NULL == [groups |-> << >>, hex |-> FALSE, n |-> 0]
NativeId == [groups |-> <<3, 3, 1, 4>>, hex |-> FALSE, n |-> 1]
UuidA == [groups |-> <<8, 4, 4, 4, 12>>, hex |-> TRUE, n |-> 1]
UuidB == [groups |-> <<8, 4, 4, 4, 12>>, hex |-> TRUE, n |-> 2]
ShortHexId == [groups |-> <<3, 3>>, hex |-> TRUE, n |-> 1]
RawIds == {NULL, NativeId, UuidA, UuidB}
FileSnapshots == { << >>, <<"a">>, <<"a", "b">> }

VARIABLES
  \* ---- Part I: props and refs of useThreadPersistence
  mounted,                      \* "new" | "mounted" | "unmounted"
  messages,                     \* prop messages: sequence of [id, content]
  files,                        \* prop files
  changes,                      \* changes of files, assistantId, assistantName or accessToken so far
  healthCheckRef,               \* "null" | "pending" | "healthy" | "unhealthy"
  threadIdMapRef,               \* persistent id of THREAD, NoId when absent
  createdThreadsRef,            \* set of thread ids
  threadCreationInProgressRef,  \* set of thread ids (the creation lock)
  creations,                    \* createThread() invocations: [pc, cancelled, match]; match is
                                \*   an observation: the record its discovery found, NoId if none
  creationCleanup,              \* invocation the registered cleanup belongs to, 0 if none
  serverThreads,                \* persistent ids of the records the store holds for THREAD
  postCount,                    \* POST /threads requests issued for THREAD
  syncPasses,                   \* currentSync invocations: [pc, cancelled, awaiting]
  syncCleanup,                  \* pass the registered cleanup belongs to, 0 if none
  syncInProgressRef,            \* index of the promise held, 0 for null
  syncedIdsRef,                 \* set of message ids
  syncedFilesRef,               \* last successfully synced snapshot
  fileRuns,                     \* runs of the file effect: [files, cancelled, pc]
  fileCleanup,                  \* run the registered cleanup belongs to, 0 if none
  fileSyncTimeoutRef,           \* run whose timer handle the ref holds, 0 for null
  lastPatch,                    \* latest PATCH /threads/{id} issued: << body, run, answer >>,
                                \* << >> if none
  lsThreadMap,                  \* localStorage: thread-service-thread-map[THREAD]
  lsSyncedFiles,                \* localStorage: thread-service-synced-files[THREAD]
  \* ---- observation of Part I (history variables, read by no action guard)
  burst,                        \* the current burst of file changes and what it led to
  lastTeardown,                 \* what the last file-effect cleanup found and did
  \* ---- Part II: state of useChat read and written by the resolution effect
  accessToken,                  \* useAuth().accessToken is present
  threadId,                     \* raw identifier (query state "threadId"), NULL when absent
  resolvedThreadId,             \* state resolvedThreadId
  serviceOnlyThreadId,          \* state serviceOnlyThreadId (read-only marker)
  fallbackThreadId,             \* state fallbackThreadId
  attempts,                     \* resolution attempts: [raw, isCurrentRequest, pc, langgraphId]
  resolveCleanup,               \* attempt the registered cleanup belongs to, 0 if none
  navigations,                  \* changes of the effect's dependencies so far
  staleWrites,                  \* observation: attempts that wrote resolver state when stale
  \* ---- Part III: the execution store (useStream) and the fallback loader
  isThreadLoading,              \* stream.isThreadLoading of the latest render
  streamMessageCount,           \* stream.messages.length of the latest render
  streamChanges,                \* changes of the execution store so far
  fallbackLoadAttemptedRef,     \* fallbackLoadAttemptedRef.current
  isLoadingFallbackMessages,    \* state isLoadingFallbackMessages
  fallbackMessagesRef,          \* fallbackMessagesRef.current.length (= fallbackMessages.length)
  checkTimeout,                 \* the pending 2000 ms check with the values its closure holds
  fallbackLoads,                \* GET /threads/{id} of loadMessagesFromThreadService in flight
  fallbackGets,                 \* observation: such GETs issued since resolvedThreadId last changed
  storeLoaded,                  \* observation: stream.isThreadLoading went from true to false
                                \*   since resolvedThreadId last changed
  \* ---- Part V: messages of a persistent-only thread
  serviceOnlyMessages,          \* state serviceOnlyMessages
  isLoadingServiceMessages,     \* state isLoadingServiceMessages
  serviceLoads,                 \* GET /threads/{id} of the service-only effect in flight
  lastServiceAnswer,            \* observation: how the latest of these GETs was answered
  storedRecord,                 \* observation: the messages of the record that
                                \*   ServiceRespondWith answered with
  \* ---- Part VI: thread list (useThreads, ThreadList)
  listToken,                    \* accessToken of the list: is the user authenticated
  listStatus,                   \* props.status of useThreads, "all" when undefined
  listSize,                     \* threads.size of useSWRInfinite
  listData,                     \* threads.data: the pages held, << >> when undefined
  preservedSizeRef,             \* preservedSizeRef.current, 0 when null
  sizeChecks,                   \* pending checkAndRestoreSize calls with their currentSize
  listQueries,                  \* observation: the stores queried, with the authentication then
  listEvents,                   \* revalidations, thread and key changes so far
  \* ---- Part IV: sendMessage
  sends                         \* calls of sendMessage: [pc, upgrade, persistent, resolved,
                                \*   newId, existing, clean, threw, log]; log is an observation:
                                \*   the requests the call has issued, in order

persistVars == << mounted, messages, files, changes, healthCheckRef,
                  threadIdMapRef, createdThreadsRef, threadCreationInProgressRef,
                  creations, creationCleanup, serverThreads, postCount,
                  syncPasses, syncCleanup, syncInProgressRef, syncedIdsRef,
                  syncedFilesRef, fileRuns, fileCleanup, fileSyncTimeoutRef, lastPatch,
                  lsThreadMap, lsSyncedFiles, burst, lastTeardown >>

resolveVars == << accessToken, threadId, resolvedThreadId, serviceOnlyThreadId, fallbackThreadId,
                  attempts, resolveCleanup, navigations, staleWrites >>

fallbackVars == << isThreadLoading, streamMessageCount, streamChanges,
                   fallbackLoadAttemptedRef, isLoadingFallbackMessages, fallbackMessagesRef,
                   checkTimeout, fallbackLoads, fallbackGets, storeLoaded >>

sendVars == << sends >>

serviceVars == << serviceOnlyMessages, isLoadingServiceMessages, serviceLoads,
                 lastServiceAnswer >>

listVars == << listToken, listStatus, listSize, listData, preservedSizeRef, sizeChecks,
              listQueries, listEvents >>

\* the state of useChat and of the thread list, which no step of
\* useThreadPersistence touches
observedVars == << storedRecord >>

chatVars == << resolveVars, fallbackVars, sendVars, serviceVars, listVars, observedVars >>

\* the state no step of useChat touches
restVars == << persistVars, listVars, observedVars >>

vars == << persistVars, chatVars >>

\* ---------------------------------------------------------------- helpers
\* JSON.stringify of a files object: the entries in insertion order, so two
\* objects with the same entries in another order serialise differently.
Stringify(f) == [i \in 1..Len(f) |-> <<i, f[i]>>]

\* messages.filter(... typeof message.content !== "undefined") ids
ContentIds(ms) == { ms[i].id : i \in { j \in 1..Len(ms) : ms[j].content } }

\* the message the execution store delivers next
NextMessage(ms, hasContent) == [id |-> Len(ms) + 1, content |-> hasContent]

NoTeardown == [happened |-> FALSE, due |-> FALSE, patched |-> FALSE, timerLeft |-> FALSE]
NoBurst == [len |-> 0, patches |-> 0, fired |-> FALSE, mapped |-> FALSE, differs |-> FALSE]

\* ================================================================ Part I
\* ------------------------------------------- thread creation effect (239-439)

\* cleanup of the creation effect, line 435-438: cancelled = true
CreationCancel(cs, idx) ==
  IF idx = 0 THEN cs ELSE [cs EXCEPT ![idx].cancelled = TRUE]

\* cleanup of the creation effect, line 437: the lock entry is deleted
CreationCleanupLock(lock, idx) ==
  IF idx = 0 THEN lock ELSE lock \ {THREAD}

\* loadThreadIdMap without its read of the stored item
loadThreadIdMapEmpty(raw) == NoId

\* loadThreadIdMap (93-117), the entry of THREAD: the entry of the stored map,
\* none when the item is absent or is not JSON
loadThreadIdMap(raw) == IF raw = CorruptItem THEN NoId ELSE raw

\* the stored item after loadThreadIdMap: an item that is not JSON is removed (109)
ItemAfterLoad(raw) == IF raw = CorruptItem THEN NoId ELSE raw

\* the guards of the effect body, lines 253-266
CreationStarts(map, lock, created) ==
  /\ map = NoId
  /\ THREAD \notin lock
  /\ THREAD \notin created

\* createThread() up to its first await: lock acquired (285), await health (290)
NewCreation == [pc |-> "health", cancelled |-> FALSE, match |-> NoId]

\* a createThread call that has returned: its closure is read no more
FinishCreation(cs, c) == [cs EXCEPT ![c].pc = "done", ![c].cancelled = TRUE]

\* (a createThread that returns without its finally block)
ReleaseLockSkipped(lock) == lock

\* the finally block of createThread, line 428
ReleaseLock(lock) == lock \ {THREAD}

\* id the persistent store gives the record a POST /threads creates
NewPersistentId(existing) == 2 + Cardinality(existing \ {PreExistingId})

\* ------------------------------------------------ message sync effect (442-819)

\* cleanup of the sync effect, line 816-818
SyncCancel(ps, idx) ==
  IF idx = 0 THEN ps ELSE [ps EXCEPT ![idx].cancelled = TRUE]

\* currentSync up to its first await (766-767); awaiting = 0: awaits no pass yet
NewPass == [pc |-> "health", cancelled |-> FALSE, awaiting |-> 0]

\* the promise of a pass settles when its async function returns
PassSettled(ps, p) == ps[p].pc = "done"

\* guard of the continuation after `await syncInProgressRef.current` (776-782):
\* the awaited promise has settled
PassCanResume(ps, p) ==
  /\ ps[p].pc = "waitPrev"
  /\ PassSettled(ps, ps[p].awaiting)

\* --------------------------------------------------- file sync effect (822-921)

NewFileRun(f) == [files |-> f, cancelled |-> FALSE, pc |-> "timer"]

\* a syncFiles closure that has returned and whose effect run was cleaned up is
\* read no more: its record keeps no file set
RetireRuns(runs) ==
  [i \in 1..Len(runs) |->
     IF runs[i].pc = "done" /\ runs[i].cancelled
     THEN [files |-> NoFiles, cancelled |-> TRUE, pc |-> "done"]
     ELSE runs[i]]

\* the PATCH /threads/{id} that run r issues with file set f (865-879), and
\* the same request once it is answered (881-895)
IssuedPatch(f, r) == << f, r, "pending" >>
AnsweredPatch(last, r, ok) ==
  IF last # << >> /\ last[2] = r
  THEN << last[1], r, IF ok THEN "ok" ELSE "failed" >>
  ELSE last

\* (a cleanup that forgets clearTimeout)
ClearTimerForgotten(runs, handle) == runs

\* clearTimeout(fileSyncTimeoutRef.current), lines 899-901 and 907-910: a pending
\* timer never fires; a handle whose timer already fired is left alone
ClearTimer(runs, handle) ==
  IF handle # 0 /\ runs[handle].pc = "timer"
  THEN [runs EXCEPT ![handle].pc = "done"]
  ELSE runs

\* (a syncFiles that does not compare the file set with the snapshot)
SyncFilesDecisionUncompared(run, synced, lock, map) ==
  IF run.cancelled THEN "cancelled"
  ELSE IF THREAD \in lock THEN "waitlock"
  ELSE IF map = NoId THEN "nothread"
  ELSE "patch"

\* syncFiles up to its first await or its return (839-861): what the call decides
SyncFilesDecision(run, synced, lock, map) ==
  IF run.cancelled THEN "cancelled"
  ELSE IF Stringify(run.files) = Stringify(synced) THEN "same"
  ELSE IF THREAD \in lock THEN "waitlock"
  ELSE IF map = NoId THEN "nothread"
  ELSE "patch"

\* cleanup of the file effect, lines 912-914: are there unsynced changes to flush
TeardownFlushDue(run, synced, map) ==
  /\ Stringify(run.files) # Stringify(synced)
  /\ map # NoId

\* ------------------------------------------------------------ one React commit
\* The cleanups of the effects whose dependencies changed run first, in the order
\* of the hook (creation, sync, file), then their bodies in the same order.  The
\* three effects write disjoint refs, except healthCheckRef and the creation lock,
\* which the file effect's cleanup reads after the creation effect's cleanup.
\*   all     - messages / assistant / token changed: the three effects re-run
\*   unmount - only the cleanups run
\* A change of files alone re-runs the file effect only (dependency lists at
\* lines 439, 819 and 921).

\* the creation effect in a commit (239-439)
CreationEffect(all, unmount) ==
  LET cIdx   == IF all \/ unmount THEN creationCleanup ELSE 0
      cs1    == CreationCancel(creations, cIdx)
      lock1  == CreationCleanupLock(threadCreationInProgressRef, cIdx)
      starts == all /\ ~unmount
                /\ CreationStarts(threadIdMapRef, lock1, createdThreadsRef)
  IN
  /\ creations' = IF starts THEN Append(cs1, NewCreation) ELSE cs1
  /\ threadCreationInProgressRef' = IF starts THEN lock1 \cup {THREAD} ELSE lock1
  /\ creationCleanup' = IF unmount THEN 0
                        ELSE IF ~all THEN creationCleanup
                        ELSE IF starts THEN Len(cs1) + 1 ELSE 0

\* does the creation effect of this commit start createThread (and the probe)
CreationEffectStarts(all, unmount) ==
  /\ all /\ ~unmount
  /\ CreationStarts(threadIdMapRef,
                    CreationCleanupLock(threadCreationInProgressRef,
                                        IF all \/ unmount THEN creationCleanup ELSE 0),
                    createdThreadsRef)

\* the message sync effect in a commit (442-819): a new currentSync is started
\* and stored in syncInProgressRef (814) when there are messages
SyncEffect(ms, all, unmount) ==
  LET sIdx  == IF all \/ unmount THEN syncCleanup ELSE 0
      ps1   == SyncCancel(syncPasses, sIdx)
      syncs == all /\ ~unmount /\ Len(ms) > 0
  IN
  /\ syncPasses' = IF syncs THEN Append(ps1, NewPass) ELSE ps1
  /\ syncInProgressRef' = IF syncs THEN Len(ps1) + 1 ELSE syncInProgressRef
  /\ syncCleanup' = IF unmount THEN 0
                    ELSE IF ~all THEN syncCleanup
                    ELSE IF syncs THEN Len(ps1) + 1 ELSE 0

SyncEffectStarts(ms, all, unmount) == all /\ ~unmount /\ Len(ms) > 0

\* the file sync effect in a commit (822-921): cleanup (905-920), then the body
\* sets the debounce timer (898-903)
FileEffect(fs, unmount, fileChange, lock1) ==
  LET r       == fileCleanup
      fr1     == IF r = 0 THEN fileRuns ELSE [fileRuns EXCEPT ![r].cancelled = TRUE]
      fr2     == ClearTimer(fr1, fileSyncTimeoutRef)
      due     == r # 0 /\ TeardownFlushDue(fr2[r], syncedFilesRef, threadIdMapRef)
      flush   == IF due
                 THEN SyncFilesDecision(fr2[r], syncedFilesRef, lock1, threadIdMapRef)
                 ELSE "none"
      fr3     == IF flush \in {"patch", "waitlock"}
                 THEN Append(fr2, [files |-> fr2[r].files, cancelled |-> TRUE, pc |-> flush])
                 ELSE fr2
      patched == IF flush = "patch" THEN 1 ELSE 0
      mapped  == threadIdMapRef # NoId
  IN
  /\ fileRuns' = RetireRuns(IF unmount THEN fr3 ELSE Append(fr3, NewFileRun(fs)))
  /\ fileSyncTimeoutRef' = IF unmount THEN 0 ELSE Len(fr3) + 1
  /\ fileCleanup' = IF unmount THEN 0 ELSE Len(fr3) + 1
  /\ lastPatch' = IF flush = "patch" THEN IssuedPatch(fr2[r].files, Len(fr2) + 1)
                  ELSE lastPatch
  /\ lastTeardown' = IF r = 0 THEN lastTeardown
                     ELSE [happened |-> TRUE, due |-> due, patched |-> flush = "patch",
                           timerLeft |-> \E i \in 1..Len(fr3) : fr3[i].pc = "timer"]
  /\ burst' = IF unmount THEN NoBurst
              ELSE IF fileChange
              THEN IF burst.len = 0 \/ burst.fired
                   THEN [len |-> 1, patches |-> patched, fired |-> FALSE,
                         mapped |-> mapped, differs |-> FALSE]
                   ELSE [burst EXCEPT !.len = @ + 1, !.patches = @ + patched,
                                      !.mapped = @ /\ mapped]
              ELSE IF burst.fired \/ burst.len = 0 THEN NoBurst
              ELSE [burst EXCEPT !.patches = @ + patched]

\* the lock as the file effect's cleanup finds it
LockAfterCreationCleanup(all, unmount) ==
  CreationCleanupLock(threadCreationInProgressRef,
                      IF all \/ unmount THEN creationCleanup ELSE 0)

Commit(ms, fs, all, unmount, fileChange) ==
  /\ messages' = ms
  /\ files' = fs
  /\ CreationEffect(all, unmount)
  /\ SyncEffect(ms, all, unmount)
  /\ FileEffect(fs, unmount, fileChange, LockAfterCreationCleanup(all, unmount))
  /\ healthCheckRef' =
       IF (CreationEffectStarts(all, unmount) \/ SyncEffectStarts(ms, all, unmount))
          /\ healthCheckRef = "null"
       THEN "pending" ELSE healthCheckRef
  /\ UNCHANGED << threadIdMapRef, createdThreadsRef, serverThreads, postCount,
                  syncedIdsRef, syncedFilesRef, lsThreadMap, lsSyncedFiles >>
  /\ UNCHANGED chatVars

\* mount: the thread-change effect (226-235) loads the durable records, then the
\* three effects run for the first time
Mount ==
  /\ mounted = "new"
  /\ mounted' = "mounted"
  /\ messages' = messages
  /\ files' = files
  /\ threadIdMapRef' = loadThreadIdMap(lsThreadMap)
  /\ lsThreadMap' = ItemAfterLoad(lsThreadMap)
  /\ syncedFilesRef' = lsSyncedFiles
  /\ LET starts == CreationStarts(loadThreadIdMap(lsThreadMap), {}, {})
         syncs  == Len(messages) > 0
     IN /\ creations' = IF starts THEN << NewCreation >> ELSE << >>
        /\ threadCreationInProgressRef' = IF starts THEN {THREAD} ELSE {}
        /\ creationCleanup' = IF starts THEN 1 ELSE 0
        /\ syncPasses' = IF syncs THEN << NewPass >> ELSE << >>
        /\ syncInProgressRef' = IF syncs THEN 1 ELSE 0
        /\ syncCleanup' = IF syncs THEN 1 ELSE 0
        /\ healthCheckRef' = IF starts \/ syncs THEN "pending" ELSE "null"
  /\ fileRuns' = << NewFileRun(files) >>
  /\ fileSyncTimeoutRef' = 1
  /\ fileCleanup' = 1
  /\ UNCHANGED << changes, createdThreadsRef, serverThreads, postCount,
                  syncedIdsRef, lastPatch, lsSyncedFiles, burst, lastTeardown >>
  /\ UNCHANGED chatVars

\* the execution store delivers one more message (prop messages changes)
Arrive(hasContent) ==
  /\ mounted = "mounted"
  /\ Len(messages) < MaxMessages
  /\ Commit(Append(messages, NextMessage(messages, hasContent)), files, TRUE, FALSE, FALSE)
  /\ UNCHANGED << mounted, changes >>

\* assistantId, assistantName or accessToken changes
PropChange ==
  /\ mounted = "mounted"
  /\ changes < MaxChanges
  /\ changes' = changes + 1
  /\ Commit(messages, files, TRUE, FALSE, FALSE)
  /\ UNCHANGED mounted

\* the files prop changes
FilesChange(f) ==
  /\ mounted = "mounted"
  /\ changes < MaxChanges
  /\ f # files
  /\ changes' = changes + 1
  /\ Commit(messages, f, FALSE, FALSE, TRUE)
  /\ UNCHANGED mounted

Unmount ==
  /\ mounted = "mounted"
  /\ mounted' = "unmounted"
  /\ Commit(messages, files, FALSE, TRUE, FALSE)
  /\ UNCHANGED << changes >>

\* ------------------------------------------------------- asynchronous steps
\* checkThreadServiceHealth (17-30) answers
HealthResolve(isHealthy) ==
  /\ healthCheckRef = "pending"
  /\ healthCheckRef' = IF isHealthy THEN "healthy" ELSE "unhealthy"
  /\ UNCHANGED << mounted, messages, files, changes, threadIdMapRef,
                  createdThreadsRef, threadCreationInProgressRef, creations,
                  creationCleanup, serverThreads, postCount, syncPasses, syncCleanup,
                  syncInProgressRef, syncedIdsRef, syncedFilesRef, fileRuns, fileCleanup,
                  fileSyncTimeoutRef, lastPatch, lsThreadMap, lsSyncedFiles, burst,
                  lastTeardown, chatVars >>

creationFrame == << mounted, messages, files, changes, healthCheckRef,
                    creationCleanup, syncPasses, syncCleanup, syncInProgressRef,
                    syncedIdsRef, syncedFilesRef, fileRuns, fileCleanup,
                    fileSyncTimeoutRef, lastPatch, lsSyncedFiles, burst, lastTeardown,
                    chatVars >>

\* createThread after `await healthCheckRef.current` (290-329): returns through the
\* finally block, or issues POST /threads
CreateAfterHealth(c) ==
  /\ c \in 1..Len(creations)
  /\ creations[c].pc = "health"
  /\ healthCheckRef \in {"healthy", "unhealthy"}
  /\ IF healthCheckRef = "unhealthy" \/ creations[c].cancelled \/ threadIdMapRef # NoId
     THEN /\ creations' = FinishCreation(creations, c)
          /\ threadCreationInProgressRef' = ReleaseLock(threadCreationInProgressRef)
          /\ postCount' = postCount
     ELSE /\ creations' = [creations EXCEPT ![c].pc = "post"]
          /\ postCount' = postCount + 1
          /\ UNCHANGED threadCreationInProgressRef
  /\ UNCHANGED << threadIdMapRef, createdThreadsRef, serverThreads, lsThreadMap >>
  /\ UNCHANGED creationFrame

\* the answer to POST /threads (331-425)
CreateResponse(c, outcome) ==
  /\ c \in 1..Len(creations)
  /\ creations[c].pc = "post"
  /\ outcome = "conflict" => serverThreads # {}
  /\ LET id   == NewPersistentId(serverThreads)
         live == ~creations[c].cancelled
     IN
     /\ serverThreads' = IF outcome \in {"ok_id", "ok_noid"}
                         THEN serverThreads \cup {id} ELSE serverThreads
     /\ createdThreadsRef' =
          IF (outcome \in {"ok_id", "ok_noid"} /\ live) \/ outcome = "conflict"
          THEN createdThreadsRef \cup {THREAD} ELSE createdThreadsRef
     /\ threadIdMapRef' = IF outcome = "ok_id" /\ live THEN id ELSE threadIdMapRef
     /\ lsThreadMap' = IF outcome = "ok_id" /\ live THEN id ELSE lsThreadMap
     /\ creations' = IF outcome = "conflict"
                     THEN [creations EXCEPT ![c].pc = "discover"]
                     ELSE FinishCreation(creations, c)
     /\ threadCreationInProgressRef' =
          IF outcome = "conflict" THEN threadCreationInProgressRef
          ELSE ReleaseLock(threadCreationInProgressRef)
  /\ UNCHANGED postCount
  /\ UNCHANGED creationFrame

\* the answer to the discovery GET /threads after a 409 (366-413)
CreateDiscover(c, match) ==
  /\ c \in 1..Len(creations)
  /\ creations[c].pc = "discover"
  /\ match \in serverThreads \cup {NoId}
  /\ LET adopt == match # NoId /\ ~creations[c].cancelled
     IN /\ threadIdMapRef' = IF adopt THEN match ELSE threadIdMapRef
        /\ lsThreadMap' = IF adopt THEN match ELSE lsThreadMap
  /\ creations' = FinishCreation([creations EXCEPT ![c].match = match], c)
  /\ threadCreationInProgressRef' = ReleaseLock(threadCreationInProgressRef)
  /\ UNCHANGED << createdThreadsRef, serverThreads, postCount >>
  /\ UNCHANGED creationFrame

\* currentSync after `await healthCheckRef.current` (767-780): returns when the
\* service is down, else awaits the promise syncInProgressRef holds at that moment
PassAfterHealth(p) ==
  /\ p \in 1..Len(syncPasses)
  /\ syncPasses[p].pc = "health"
  /\ healthCheckRef \in {"healthy", "unhealthy"}
  /\ syncPasses' =
       IF healthCheckRef = "unhealthy"
       THEN [syncPasses EXCEPT ![p].pc = "done"]
       ELSE IF syncInProgressRef # 0
       THEN [syncPasses EXCEPT ![p].pc = "waitPrev", ![p].awaiting = syncInProgressRef]
       ELSE [syncPasses EXCEPT ![p].pc = "ensure"]
  /\ UNCHANGED << mounted, messages, files, changes, healthCheckRef,
                  threadIdMapRef, createdThreadsRef, threadCreationInProgressRef,
                  creations, creationCleanup, serverThreads, postCount, syncCleanup,
                  syncInProgressRef, syncedIdsRef, syncedFilesRef, fileRuns, fileCleanup,
                  fileSyncTimeoutRef, lastPatch, lsThreadMap, lsSyncedFiles, burst,
                  lastTeardown, chatVars >>

fileFrame == << mounted, messages, files, changes, healthCheckRef,
                threadIdMapRef, createdThreadsRef, threadCreationInProgressRef,
                creations, creationCleanup, serverThreads, postCount, syncPasses,
                syncCleanup, syncInProgressRef, syncedIdsRef, fileCleanup,
                fileSyncTimeoutRef, lsThreadMap, lastTeardown, chatVars >>

\* what a decision of syncFiles does to its run
ApplyDecision(runs, r, d) ==
  IF d \in {"patch", "waitlock"}
  THEN [runs EXCEPT ![r].pc = d]
  ELSE [runs EXCEPT ![r].pc = "done"]

\* the debounce timer of run r fires after 1000 ms: syncFiles (839-879)
TimerFire(r) ==
  /\ r \in 1..Len(fileRuns)
  /\ fileRuns[r].pc = "timer"
  /\ LET d == SyncFilesDecision(fileRuns[r], syncedFilesRef,
                                threadCreationInProgressRef, threadIdMapRef)
     IN /\ fileRuns' = RetireRuns(ApplyDecision(fileRuns, r, d))
        /\ lastPatch' = IF d = "patch" THEN IssuedPatch(fileRuns[r].files, r)
                       ELSE lastPatch
        /\ burst' = IF burst.len = 0 THEN burst
                    ELSE [burst EXCEPT
                            !.fired = TRUE,
                            !.differs = Stringify(fileRuns[r].files) # Stringify(syncedFilesRef),
                            !.mapped = @ /\ threadIdMapRef # NoId,
                            !.patches = @ + (IF d = "patch" THEN 1 ELSE 0)]
  /\ UNCHANGED << syncedFilesRef, lsSyncedFiles >>
  /\ UNCHANGED fileFrame

\* one turn of the lock wait loop of syncFiles (852-861) that leaves the loop
FilePoll(r) ==
  /\ r \in 1..Len(fileRuns)
  /\ fileRuns[r].pc = "waitlock"
  /\ fileRuns[r].cancelled \/ THREAD \notin threadCreationInProgressRef
  /\ LET d == IF fileRuns[r].cancelled THEN "cancelled"
              ELSE IF threadIdMapRef = NoId THEN "nothread" ELSE "patch"
     IN /\ fileRuns' = RetireRuns(ApplyDecision(fileRuns, r, d))
        /\ lastPatch' = IF d = "patch" THEN IssuedPatch(fileRuns[r].files, r)
                       ELSE lastPatch
        /\ burst' = IF burst.len = 0 \/ d # "patch" THEN burst
                    ELSE [burst EXCEPT !.patches = @ + 1]
  /\ UNCHANGED << syncedFilesRef, lsSyncedFiles >>
  /\ UNCHANGED fileFrame

\* the answer to PATCH /threads/{id} (881-895)
PatchResponse(r, ok) ==
  /\ r \in 1..Len(fileRuns)
  /\ fileRuns[r].pc = "patch"
  /\ fileRuns' = RetireRuns([fileRuns EXCEPT ![r].pc = "done"])
  /\ syncedFilesRef' = IF ok THEN fileRuns[r].files ELSE syncedFilesRef
  /\ lsSyncedFiles' = IF ok THEN fileRuns[r].files ELSE lsSyncedFiles
  /\ lastPatch' = AnsweredPatch(lastPatch, r, ok)
  /\ UNCHANGED burst
  /\ UNCHANGED fileFrame

\* -------------------------------------------------------------- specification
InitPersist ==
  /\ mounted = "new"
  /\ messages = << >>
  /\ files = NoFiles
  /\ changes = 0
  /\ healthCheckRef = "null"
  /\ threadIdMapRef = NoId
  /\ createdThreadsRef = {}
  /\ threadCreationInProgressRef = {}
  /\ creations = << >>
  /\ creationCleanup = 0
  /\ lsThreadMap \in {NoId, PreExistingId, CorruptItem}
  /\ serverThreads \in IF lsThreadMap = PreExistingId THEN {{PreExistingId}}
                        ELSE {{}, {PreExistingId}}
  /\ postCount = 0
  /\ syncPasses = << >>
  /\ syncCleanup = 0
  /\ syncInProgressRef = 0
  /\ syncedIdsRef = {}
  /\ syncedFilesRef = NoFiles
  /\ fileRuns = << >>
  /\ fileCleanup = 0
  /\ fileSyncTimeoutRef = 0
  /\ lastPatch = << >>
  /\ lsSyncedFiles \in IF lsThreadMap = PreExistingId THEN {NoFiles, <<"a">>}
                        ELSE {NoFiles}
  /\ burst = NoBurst
  /\ lastTeardown = NoTeardown

\* useChat mounted with no raw identifier: every effect has taken its null branch
InitChat ==
  /\ accessToken = TRUE
  /\ threadId = NULL
  /\ resolvedThreadId = NULL
  /\ serviceOnlyThreadId = NULL
  /\ fallbackThreadId = NULL
  /\ attempts = << >>
  /\ resolveCleanup = 0
  /\ navigations = 0
  /\ staleWrites = {}
  /\ isThreadLoading = FALSE
  /\ streamMessageCount = 0
  /\ streamChanges = 0
  /\ fallbackLoadAttemptedRef = NULL
  /\ isLoadingFallbackMessages = FALSE
  /\ fallbackMessagesRef = 0
  /\ checkTimeout = << >>
  /\ fallbackLoads = << >>
  /\ fallbackGets = 0
  /\ storeLoaded = FALSE
  /\ sends = << >>
  /\ serviceOnlyMessages = << >>
  /\ isLoadingServiceMessages = FALSE
  /\ serviceLoads = << >>
  /\ lastServiceAnswer = "none"
  /\ storedRecord = << >>
  /\ listToken = TRUE
  /\ listStatus = "all"
  /\ listSize = 1
  /\ listData = << >>
  /\ preservedSizeRef = 0
  /\ sizeChecks = << >>
  /\ listQueries = {}
  /\ listEvents = 0

\* the hook of Part I not yet mounted, nothing stored
IdlePersist ==
  /\ InitPersist
  /\ lsThreadMap = NoId
  /\ serverThreads = {}

Init == InitPersist /\ InitChat

\* What the user and the execution store do to the hook.  Each specification
\* draws the inputs its flows read: the content of a message is read by the sync
\* passes only, the files prop by the file effect only, and for the creation and
\* file effects a new message is one more change of their dependencies.
External ==
  \/ Mount
  \/ PropChange
  \/ \E f \in FileSnapshots : FilesChange(f)
  \/ Unmount

ExternalCreate ==
  \/ Mount
  \/ Arrive(TRUE)
  \/ PropChange
  \/ Unmount

ExternalSync ==
  \/ Mount
  \/ \E h \in BOOLEAN : Arrive(h)
  \/ PropChange
  \/ Unmount

\* the steps of the creation flows and of the persistent store answering them
CreationSteps ==
  \/ \E c \in 1..Len(creations) : CreateAfterHealth(c)
  \/ \E c \in 1..Len(creations), o \in {"ok_id", "ok_noid", "conflict", "error"} :
        CreateResponse(c, o)
  \/ \E c \in 1..Len(creations), m \in serverThreads \cup {NoId} : CreateDiscover(c, m)

\* the steps of the file flows and of the persistent store answering them
FileSteps ==
  \/ \E r \in 1..Len(fileRuns) : TimerFire(r)
  \/ \E r \in 1..Len(fileRuns) : FilePoll(r)
  \/ \E r \in 1..Len(fileRuns), ok \in BOOLEAN : PatchResponse(r, ok)

\* the steps of the sync passes
SyncSteps == \E p \in 1..Len(syncPasses) : PassAfterHealth(p)

\* Spec: the hook with its creation and file flows running.  The sync passes are
\* started by every commit but not stepped: a pass writes syncPasses only, which
\* no creation or file step reads (SpecSync steps them).
Next ==
  \/ External
  \/ \E b \in BOOLEAN : HealthResolve(b)
  \/ CreationSteps
  \/ FileSteps

Spec == Init /\ [][Next]_vars

\* SpecCreate: the hook with its creation flows running under message arrivals;
\* the debounce timers of the file effect are set by every commit but do not fire.
NextCreate ==
  \/ ExternalCreate
  \/ \E b \in BOOLEAN : HealthResolve(b)
  \/ CreationSteps

SpecCreate == Init /\ [][NextCreate]_vars

\* SpecSync: the hook with its sync passes running; creation and file flows are
\* started by every commit but not stepped.
NextSync ==
  \/ ExternalSync
  \/ \E b \in BOOLEAN : HealthResolve(b)
  \/ SyncSteps

SpecSync == Init /\ [][NextSync]_vars

\* SpecHealth: the hook of one session with its creation and file flows running
\* under message arrivals and file changes; the probe is started by the
\* creation effect or, for a thread whose id is stored, by the first message.
NextHealth ==
  \/ Mount
  \/ Arrive(TRUE)
  \/ \E f \in FileSnapshots : FilesChange(f)
  \/ \E b \in BOOLEAN : HealthResolve(b)
  \/ CreationSteps
  \/ FileSteps

SpecHealth == Init /\ [][NextHealth]_vars

\* SpecLive: Spec, where every request in flight is answered and every timer
\* that is due fires: the probe (17-30), the requests of createThread
\* (290-413), and the timers and the PATCH of syncFiles (852-879, 903)
SpecLive ==
  /\ Spec
  /\ WF_vars(\E b \in BOOLEAN : HealthResolve(b))
  /\ WF_vars(CreationSteps)
  /\ WF_vars(FileSteps)

\* ============================================================ claims, Part I

\* C1 (as claimed; SpecCreate): for the one execution thread id of the mounted hook,
\* at most one POST /threads is ever issued, under every interleaving of
\* creation-effect runs and responses.
C1_AtMostOnePost == postCount <= 1

\* No sync pass that awaits syncInProgressRef.current is ever resumed: the promise
\* it awaits is its own or a later pass's, and none of them settles.  This is why
\* the continuation of currentSync (782-810: ensureThreadExists, syncMessages, the
\* title update) has no action in this model.
PassNeverResumes ==
  \A p \in 1..Len(syncPasses) :
    /\ ~PassCanResume(syncPasses, p)
    /\ syncPasses[p].pc # "ensure"
    /\ syncPasses[p].pc = "waitPrev" => syncPasses[p].awaiting >= p

C4_Converged ==
  ( /\ mounted = "mounted"
    /\ healthCheckRef = "healthy"
    /\ threadIdMapRef # NoId
    /\ ~ENABLED SyncSteps )
  => syncedIdsRef = ContentIds(messages)

\* C8 (as claimed; Spec): a burst of k >= 1 file changes on a thread with a
\* persistent id, closed by its debounce timer firing, led to exactly one PATCH,
\* carrying the final file set.
C8_OnePatchPerBurst ==
  (burst.len >= 1 /\ burst.fired /\ burst.mapped) =>
    /\ burst.patches = 1
    /\ lastPatch # << >>
    /\ lastPatch[1] = files

\* C8 (amended; Spec): such a burst led to exactly one PATCH carrying the final
\* file set when the final set serialises differently from the last successfully
\* synced snapshot, and to no PATCH when it serialises the same.
C8_OnePatchPerBurstUnlessSynced ==
  (burst.len >= 1 /\ burst.fired /\ burst.mapped) =>
    IF burst.differs
    THEN /\ burst.patches = 1
         /\ lastPatch # << >>
         /\ lastPatch[1] = files
    ELSE burst.patches = 0

\* C8 witness: a burst of two changes was coalesced into its one PATCH
C8_Witness ==
  /\ burst.len >= 2 /\ burst.fired /\ burst.mapped /\ burst.differs
  /\ burst.patches = 1
  /\ lastPatch[1] = files

\* C9 (as claimed; Spec): a teardown of the file effect that finds the file set
\* of its run different from the last synced snapshot, on a thread with a
\* persistent id, leaves no debounce timer pending and issues a PATCH.
C9_TeardownFlushes ==
  (lastTeardown.happened /\ lastTeardown.due) =>
    /\ ~lastTeardown.timerLeft
    /\ lastTeardown.patched

\* ======================================================================
\* Parts II-IV.  useChat (second definition of the file, from line 511)
\* ======================================================================

\* UUID_PATTERN: five groups of 8, 4, 4, 4 and 12 hexadecimal digits
UUID_PATTERN == <<8, 4, 4, 4, 12>>

\* the group lengths are not tested: variant of isValidUUID
isValidUUIDHexOnly(id) == id.hex

isValidUUID(id) == id.hex /\ id.groups = UUID_PATTERN

\* the execution id the persistent record of id u is linked to
LinkedId(u) == [groups |-> <<4, 1>>, hex |-> FALSE, n |-> u.n]

\* the thread_id of the k-th thread client.threads.create returns
NewExecId(k) == [groups |-> <<4, 1>>, hex |-> FALSE, n |-> Cardinality(RawIds) + k]

\* ------------------------------------------- fallback check effect (1065-1135)
\* 1100-1105 and 1121-1125
ShouldLoadFallback(loading, count, loadingFallback, held, attempted, res) ==
  /\ ~loading
  /\ count = 0
  /\ ~loadingFallback
  /\ held = 0
  /\ attempted # res

\* the attempt marker is left alone before the load: variant of MarkAttempted
MarkNothing(res, attempted) == attempted

\* 1109 and 1127: fallbackLoadAttemptedRef.current = resolvedThreadId
MarkAttempted(res, attempted) == res

\* 1115-1130: what the closure of the delayed check holds
NewCheck(res, fb, loading, token) ==
  [resolved |-> res, fallback |-> fb, loading |-> loading,
   count |-> streamMessageCount, loadingFallback |-> isLoadingFallbackMessages,
   token |-> token]

\* loadMessagesFromThreadService (918-935) up to its fetch, for target fb, with
\* the marker already written; base is the number of GETs counted so far
StartLoad(fb, token, base) ==
  IF token
  THEN /\ isLoadingFallbackMessages' = TRUE
       /\ fallbackLoads' = Append(fallbackLoads, fb)
       /\ fallbackGets' = base + 1
  ELSE /\ isLoadingFallbackMessages' = isLoadingFallbackMessages
       /\ fallbackLoads' = fallbackLoads
       /\ fallbackGets' = base

\* the effect body for the values of one render; held is fallbackMessagesRef as
\* the effects before this one left it.  The cleanup of the previous run (1132)
\* has cleared its timer.
FallbackEffect(res, so, fb, loading, token, held) ==
  LET base == IF res # resolvedThreadId THEN 0 ELSE fallbackGets IN
  IF res = NULL \/ fb = NULL \/ so # NULL
  THEN /\ fallbackMessagesRef' = 0
       /\ isLoadingFallbackMessages' = FALSE
       /\ fallbackLoadAttemptedRef' = NULL
       /\ checkTimeout' = << >>
       /\ fallbackLoads' = fallbackLoads
       /\ fallbackGets' = base
  ELSE LET attempted == IF fallbackLoadAttemptedRef # res THEN NULL
                        ELSE fallbackLoadAttemptedRef
       IN
       /\ fallbackMessagesRef' = held
       /\ IF ShouldLoadFallback(loading, streamMessageCount,
                                isLoadingFallbackMessages, held, attempted, res)
          THEN /\ fallbackLoadAttemptedRef' = MarkAttempted(res, attempted)
               /\ StartLoad(fb, token, base)
               /\ checkTimeout' = << >>
          ELSE /\ fallbackLoadAttemptedRef' = attempted
               /\ checkTimeout' = << NewCheck(res, fb, loading, token) >>
               /\ isLoadingFallbackMessages' = isLoadingFallbackMessages
               /\ fallbackLoads' = fallbackLoads
               /\ fallbackGets' = base

\* ------------------------------------------- service-only messages effect (692-832)
\* the effect runs when serviceOnlyThreadId or accessToken changed: 693-697
\* clear the list, 705-712 issue the GET and keep the list held so far
ServiceEffect(so, token) ==
  IF so = serviceOnlyThreadId /\ token = accessToken
  THEN UNCHANGED serviceVars
  ELSE IF so = NULL \/ ~token
  THEN /\ serviceOnlyMessages' = << >>
       /\ isLoadingServiceMessages' = FALSE
       /\ UNCHANGED << serviceLoads, lastServiceAnswer >>
  ELSE /\ isLoadingServiceMessages' = TRUE
       /\ serviceLoads' = Append(serviceLoads, so)
       /\ UNCHANGED << serviceOnlyMessages, lastServiceAnswer >>

\* One render of useChat with these values of the resolver state and of the
\* execution store: the fallback effect runs when one of its dependencies
\* (1135) differs from the previous render, the service-only effect likewise.
ChatCommit(res, so, fb, loading, token, held) ==
  /\ ServiceEffect(so, token)
  /\ resolvedThreadId' = res
  /\ serviceOnlyThreadId' = so
  /\ fallbackThreadId' = fb
  /\ isThreadLoading' = loading
  /\ storeLoaded' = IF res # resolvedThreadId THEN FALSE
                    ELSE IF isThreadLoading /\ ~loading THEN TRUE
                    ELSE storeLoaded
  /\ IF << res, so, fb, loading >> #
          << resolvedThreadId, serviceOnlyThreadId, fallbackThreadId, isThreadLoading >>
     THEN FallbackEffect(res, so, fb, loading, token, held)
     ELSE /\ fallbackMessagesRef' = held
          /\ UNCHANGED << fallbackLoadAttemptedRef, isLoadingFallbackMessages,
                          checkTimeout, fallbackLoads, fallbackGets >>

\* ------------------------------------------- resolution effect (540-667)
\* line 569: `let isCurrentRequest = true` and the fetch of line 572
NewAttempt(raw) ==
  [raw |-> raw, isCurrentRequest |-> TRUE, pc |-> "fetch", langgraphId |-> NULL,
   outcome |-> "pending"]

\* cleanup 662-666: the flag is cleared and the fetch aborted; an aborted fetch
\* rejects with AbortError, which the catch of 649-651 drops
ResolveCleanup(as, idx) ==
  IF idx = 0 THEN as
  ELSE [as EXCEPT ![idx].isCurrentRequest = FALSE,
                  ![idx].pc = IF @ = "fetch" THEN "done" ELSE @]

\* 619: files metadata present, a linked execution id and a client
RestoresFiles(langgraphId, hasFiles) == hasFiles /\ langgraphId # NULL

\* the effect runs for raw identifier raw and token presence token: cleanup of
\* the previous run, then the body 541-577
ResolveEffect(raw, token) ==
  LET cleaned == ResolveCleanup(attempts, resolveCleanup) IN
  /\ threadId' = raw
  /\ accessToken' = token
  /\ navigations' = navigations + 1
  /\ IF raw = NULL
     THEN /\ attempts' = cleaned
          /\ resolveCleanup' = 0
          /\ ChatCommit(NULL, NULL, NULL, isThreadLoading, token, 0)
     ELSE IF ~isValidUUID(raw) \/ ~token
     THEN /\ attempts' = cleaned
          /\ resolveCleanup' = 0
          /\ ChatCommit(raw, NULL, fallbackThreadId, isThreadLoading, token,
                        fallbackMessagesRef)
     ELSE /\ attempts' = Append(cleaned, NewAttempt(raw))
          /\ resolveCleanup' = Len(attempts) + 1
          /\ ChatCommit(resolvedThreadId, serviceOnlyThreadId, fallbackThreadId,
                        isThreadLoading, token, fallbackMessagesRef)
  /\ UNCHANGED << staleWrites, streamMessageCount, streamChanges >>
  /\ UNCHANGED << restVars, sendVars >>

\* the query state threadId changes
Navigate(raw) ==
  /\ navigations < MaxNavigations
  /\ raw # threadId
  /\ ResolveEffect(raw, accessToken)

\* the access token changes (the user signs in again, or signs out)
TokenChange(token) ==
  /\ navigations < MaxNavigations
  /\ accessToken \/ token
  /\ ResolveEffect(threadId, token)

\* the raw identifier is used although the record has no linked id: variant
\* of ResolvedAfter
ResolvedAfterRawWhenUnlinked(outcome, langgraphId, raw) ==
  IF outcome = "ok" /\ langgraphId # NULL THEN langgraphId ELSE raw

\* a rejected fetch leaves the thread without an id: variant of ResolvedAfter
ResolvedAfterNoneOnError(outcome, langgraphId, raw) ==
  IF outcome = "ok" THEN langgraphId ELSE IF outcome = "network" THEN NULL ELSE raw

\* the value written to resolvedThreadId: langgraph_thread_id of the record
\* (631, null at 642 when absent), the raw identifier at 588, 596 and 656
ResolvedAfter(outcome, langgraphId, raw) ==
  IF outcome = "ok" THEN langgraphId ELSE raw

\* the value written to serviceOnlyThreadId: 643 for a record without a
\* linked id, null at 589, 597, 632 and 657
ServiceOnlyAfter(outcome, langgraphId, raw) ==
  IF outcome = "ok" /\ langgraphId = NULL THEN raw ELSE NULL

\* the value of fallbackThreadId: 634, 644 and 658; 404 and the other
\* statuses (586-599) do not write it
FallbackAfter(outcome, langgraphId, raw, previous) ==
  IF outcome = "ok" /\ langgraphId # NULL THEN raw
  ELSE IF outcome \in {"notfound", "status"} THEN previous
  ELSE NULL

\* GET /threads/{threadId} answers: continuations 579-602, 603-646 up to the
\* await of 622, and the catch of 647-660
FetchRespond(a, outcome, langgraphId, hasFiles) ==
  /\ a \in 1..Len(attempts)
  /\ attempts[a].pc = "fetch"
  /\ langgraphId \in {NULL, LinkedId(attempts[a].raw)}
  /\ outcome # "ok" => langgraphId = NULL /\ ~hasFiles
  /\ LET cur == attempts[a].isCurrentRequest
         raw == attempts[a].raw
         res == ResolvedAfter(outcome, langgraphId, raw)
         so  == ServiceOnlyAfter(outcome, langgraphId, raw)
         fb  == FallbackAfter(outcome, langgraphId, raw, fallbackThreadId)
     IN
     /\ attempts' = [attempts EXCEPT
          ![a].pc = IF outcome = "ok" /\ cur /\ RestoresFiles(langgraphId, hasFiles)
                    THEN "restore" ELSE "done",
          ![a].langgraphId = langgraphId,
          ![a].outcome = outcome]
     /\ IF ~cur \/ (outcome = "ok" /\ RestoresFiles(langgraphId, hasFiles))
        THEN ChatCommit(resolvedThreadId, serviceOnlyThreadId, fallbackThreadId,
                        isThreadLoading, accessToken, fallbackMessagesRef)
        ELSE ChatCommit(res, so, fb, isThreadLoading, accessToken, fallbackMessagesRef)
  /\ UNCHANGED << accessToken, threadId, resolveCleanup, navigations, staleWrites,
                  streamMessageCount, streamChanges >>
  /\ UNCHANGED << restVars, sendVars >>

\* client.threads.updateState of 622 settles (its failure is caught at 626):
\* lines 631-636 follow without reading isCurrentRequest again
RestoreSettle(a) ==
  /\ a \in 1..Len(attempts)
  /\ attempts[a].pc = "restore"
  /\ attempts' = [attempts EXCEPT ![a].pc = "done"]
  /\ ChatCommit(attempts[a].langgraphId, NULL, attempts[a].raw, isThreadLoading,
                accessToken, fallbackMessagesRef)
  /\ staleWrites' = IF attempts[a].isCurrentRequest THEN staleWrites
                    ELSE staleWrites \cup {a}
  /\ UNCHANGED << accessToken, threadId, resolveCleanup, navigations,
                  streamMessageCount, streamChanges >>
  /\ UNCHANGED << restVars, sendVars >>

\* ------------------------------------------- execution store (useStream, 903-915)
\* stream.isThreadLoading changes; a store without a thread does not load
StreamLoading(b) ==
  /\ streamChanges < MaxStreamChanges
  /\ b # isThreadLoading
  /\ b => resolvedThreadId # NULL
  /\ streamChanges' = streamChanges + 1
  /\ ChatCommit(resolvedThreadId, serviceOnlyThreadId, fallbackThreadId, b,
                accessToken, fallbackMessagesRef)
  /\ UNCHANGED << accessToken, threadId, attempts, resolveCleanup, navigations,
                  staleWrites, streamMessageCount >>
  /\ UNCHANGED << restVars, sendVars >>

\* stream.messages grows; no dependency of the fallback effect changes
StreamPopulate ==
  /\ streamChanges < MaxStreamChanges
  /\ streamMessageCount < MaxStreamMessages
  /\ resolvedThreadId # NULL
  /\ streamChanges' = streamChanges + 1
  /\ streamMessageCount' = streamMessageCount + 1
  /\ UNCHANGED << isThreadLoading, fallbackLoadAttemptedRef, isLoadingFallbackMessages,
                  fallbackMessagesRef, checkTimeout, fallbackLoads, fallbackGets,
                  storeLoaded >>
  /\ UNCHANGED << restVars, resolveVars, sendVars, serviceVars >>

\* ------------------------------------------- delayed check and loader answers
\* the 2000 ms timer of 1115-1130 fires: stream and isLoadingFallbackMessages
\* are those of its closure, the two refs are read live
CheckTimeoutFire ==
  /\ checkTimeout # << >>
  /\ checkTimeout' = << >>
  /\ LET t == checkTimeout[1] IN
     IF ShouldLoadFallback(t.loading, t.count, t.loadingFallback, fallbackMessagesRef,
                           fallbackLoadAttemptedRef, t.resolved)
     THEN /\ fallbackLoadAttemptedRef' = MarkAttempted(t.resolved, fallbackLoadAttemptedRef)
          /\ StartLoad(t.fallback, t.token, fallbackGets)
     ELSE UNCHANGED << fallbackLoadAttemptedRef, isLoadingFallbackMessages,
                       fallbackLoads, fallbackGets >>
  /\ UNCHANGED << isThreadLoading, streamMessageCount, streamChanges,
                  fallbackMessagesRef, storeLoaded >>
  /\ UNCHANGED << restVars, resolveVars, sendVars, serviceVars >>

\* s without its i-th element
RemoveAt(s, i) == SubSeq(s, 1, i - 1) \o SubSeq(s, i + 1, Len(s))

\* the GET of loadMessagesFromThreadService answers (937-1056): n messages,
\* none, or a failure
FallbackRespond(i, outcome, n) ==
  /\ i \in 1..Len(fallbackLoads)
  /\ outcome \in {"messages", "empty", "failed"}
  /\ n \in 1..MaxHistory
  /\ outcome # "messages" => n = 1
  /\ fallbackMessagesRef' = IF outcome = "messages" THEN n ELSE 0
  /\ isLoadingFallbackMessages' = FALSE
  /\ fallbackLoads' = RemoveAt(fallbackLoads, i)
  /\ UNCHANGED << isThreadLoading, streamMessageCount, streamChanges,
                  fallbackLoadAttemptedRef, checkTimeout, fallbackGets, storeLoaded >>
  /\ UNCHANGED << restVars, resolveVars, sendVars, serviceVars >>

\* ------------------------------------------- answers of the service-only GET
\* the persisted messages of the record of thread t, in the order of the
\* store: id, created_at (as a time), metadata.source_message_type, kind, the
\* role of the participant participant_id names among the participants of the
\* record, metadata.tool_call_id; "none" is absent
StoredMessage(id, at, sourceType, kind, participant, toolCallId) ==
  [id |-> id, created_at |-> at, source_message_type |-> sourceType, kind |-> kind,
   participant |-> participant, tool_call_id |-> toolCallId]

Record(t) ==
  IF t = UuidA
  THEN << StoredMessage(1, 2, "ai", "text", "none", "none"),
          StoredMessage(2, 1, "human", "text", "none", "none"),
          StoredMessage(3, 2, "none", "tool_call", "none", "none") >>
  ELSE IF t = UuidB
  THEN << StoredMessage(4, 1, "human", "text", "none", "none") >>
  ELSE << >>

\* the orders in which the store may return the messages s
Orders(s) ==
  { p \in [1..Len(s) -> 1..Len(s)] : \A i, j \in 1..Len(s) : i # j => p[i] # p[j] }

Reordered(s, p) == [i \in 1..Len(s) |-> s[p[i]]]

\* x placed behind the elements of the sorted s that are not later than x
InsertByCreatedAt(x, s) ==
  LET k == Cardinality({ i \in 1..Len(s) : s[i].created_at <= x.created_at })
  IN SubSeq(s, 1, k) \o << x >> \o SubSeq(s, k + 1, Len(s))

\* 754-758: [...messages].sort((a, b) => timeA - timeB), a stable sort
RECURSIVE SortByCreatedAt(_)
SortByCreatedAt(s) ==
  IF s = << >> THEN << >>
  ELSE InsertByCreatedAt(s[Len(s)], SortByCreatedAt(SubSeq(s, 1, Len(s) - 1)))

\* 762-795 and 986-1019: messageType.  A stored source type, known or not,
\* keeps the participant from being read (764-770); without a stored source
\* type and without a participant the kind decides (777-783)
MessageType(sourceType, participant, kind) ==
  IF sourceType # "none"
  THEN IF sourceType \in {"human", "ai", "tool"} THEN sourceType ELSE "ai"
  ELSE IF participant = "none"
  THEN IF kind = "tool_call" THEN "tool" ELSE "ai"
  ELSE CASE participant = "user" -> "human"
         [] participant = "tool" -> "tool"
         [] participant = "agent" -> "ai"
         [] OTHER -> "ai"

\* 761-817 and 984-1043: the canonical message of a persisted one; tool_call_id
\* is set for a tool message whose metadata holds one (806-808)
ToLangGraphMessage(msg) ==
  LET type == MessageType(msg.source_message_type, msg.participant, msg.kind) IN
  [id |-> msg.id,
   type |-> type,
   tool_call_id |-> IF type = "tool" THEN msg.tool_call_id ELSE "none"]

ConvertedMessages(s) ==
  LET sorted == SortByCreatedAt(s) IN
  [i \in 1..Len(sorted) |-> ToLangGraphMessage(sorted[i])]

\* the i-th GET of the service-only effect answers (713-831): the record with
\* its messages in order p, or a failure; the answer is applied whichever
\* thread is shown by now
ServiceRespond(i, outcome, p) ==
  /\ i \in 1..Len(serviceLoads)
  /\ outcome \in {"ok", "failed"}
  /\ p \in Orders(Record(serviceLoads[i]))
  /\ serviceOnlyMessages' =
       IF outcome = "ok" THEN ConvertedMessages(Reordered(Record(serviceLoads[i]), p))
       ELSE << >>
  /\ isLoadingServiceMessages' = FALSE
  /\ serviceLoads' = RemoveAt(serviceLoads, i)
  /\ lastServiceAnswer' = outcome
  /\ UNCHANGED << restVars, resolveVars, fallbackVars, sendVars >>

\* ------------------------------------------- sendMessage (1137-1357)
\* the explicit thread id is dropped: variant of buildSubmitConfig
buildSubmitConfigWithoutExplicit(explicitThreadId, resolved) == resolved

\* 1149: explicitThreadId ?? resolvedThreadId, the thread_id of the submit
buildSubmitConfig(explicitThreadId, resolved) ==
  IF explicitThreadId # NULL THEN explicitThreadId ELSE resolved

\* one call; persistent and resolved are the values its closure holds
NewSend(persistent, resolved, upgrade) ==
  [pc |-> IF upgrade THEN "create" ELSE "done", upgrade |-> upgrade,
   persistent |-> persistent, resolved |-> resolved, newId |-> NULL,
   existing |-> 0, clean |-> TRUE, threw |-> FALSE, log |-> << >>]

Op(op, thread) == [op |-> op, thread |-> thread]

\* the k-th call issues one more request
Issue(k, o) == [sends EXCEPT ![k].log = Append(@, o)]

\* threads client.threads.create has returned so far
CreatedCount == Cardinality({ k \in 1..Len(sends) : sends[k].newId # NULL })

sendFrame == << restVars, resolveVars, fallbackVars, serviceVars >>

\* sendMessage is called with activeAssistant present or null: 1164-1170 issue
\* client.threads.create on a persistent-only thread; without a token the
\* branch of 1319-1330 submits at once, and reads activeAssistant.config, which
\* throws a TypeError before the submit when activeAssistant is null; every
\* other thread submits at once with activeAssistant?.config (1331-1341)
SendMessage(assistant) ==
  /\ Len(sends) < MaxSends
  /\ LET serviceOnly == serviceOnlyThreadId # NULL /\ resolvedThreadId = NULL
         upgrade == serviceOnly /\ accessToken /\ assistant
         throws == serviceOnly /\ ~assistant
         first == IF upgrade THEN << Op("create", NULL) >>
                  ELSE IF throws THEN << >>
                  ELSE << Op("submit", buildSubmitConfig(NULL, resolvedThreadId)) >>
     IN sends' = Append(sends,
                   [NewSend(serviceOnlyThreadId, resolvedThreadId, upgrade)
                      EXCEPT !.log = first, !.threw = throws])
  /\ UNCHANGED sendFrame

\* the catch of 1303-1317: submit without an explicit thread id
SendCaught(k) ==
  /\ sends' = [Issue(k, Op("submit", buildSubmitConfig(NULL, sends[k].resolved)))
                 EXCEPT ![k].pc = "done", ![k].clean = FALSE]
  /\ UNCHANGED sendFrame

sendWritesFrame == << accessToken, threadId, attempts, resolveCleanup, navigations,
                      staleWrites, streamMessageCount, streamChanges, restVars >>

\* 1260-1262 and 1285-1287: the three state writes, then the render
SendWrites(k) ==
  /\ ChatCommit(sends[k].newId, NULL, sends[k].persistent, isThreadLoading,
                accessToken, fallbackMessagesRef)
  /\ UNCHANGED sendWritesFrame

\* client.threads.create settles (1170-1178): on success the PATCH is issued
CreateThreadRespond(k, ok) ==
  /\ k \in 1..Len(sends)
  /\ sends[k].pc = "create"
  /\ IF ok
     THEN LET id == NewExecId(CreatedCount + 1) IN
          /\ sends' = [Issue(k, Op("patch", id)) EXCEPT ![k].pc = "patch", ![k].newId = id]
          /\ UNCHANGED sendFrame
     ELSE SendCaught(k)

\* the PATCH of 1178-1192 answers: 2xx issues the GET of 1201, another status
\* takes the branch of 1280-1301, a rejected fetch the catch of 1303
LinkRespond(k, outcome) ==
  /\ k \in 1..Len(sends)
  /\ sends[k].pc = "patch"
  /\ outcome \in {"ok", "status", "rejected"}
  /\ IF outcome = "ok"
     THEN /\ sends' = [Issue(k, Op("get", sends[k].persistent)) EXCEPT ![k].pc = "get"]
          /\ UNCHANGED sendFrame
     ELSE IF outcome = "status"
     THEN /\ sends' = [sends EXCEPT ![k].pc = "delay", ![k].clean = FALSE]
          /\ SendWrites(k)
     ELSE SendCaught(k)

\* the GET of 1201-1209 answers with n persisted messages: a non-empty history
\* is replayed with client.threads.updateState (1244)
HistoryRespond(k, outcome, n) ==
  /\ k \in 1..Len(sends)
  /\ sends[k].pc = "get"
  /\ outcome \in {"ok", "status", "rejected"}
  /\ n \in 0..MaxHistory
  /\ outcome # "ok" => n = 0
  /\ IF outcome = "ok" /\ n > 0
     THEN /\ sends' = [Issue(k, Op("replay", sends[k].newId))
                          EXCEPT ![k].pc = "replay", ![k].existing = n]
          /\ UNCHANGED sendFrame
     ELSE IF outcome \in {"ok", "status"}
     THEN /\ sends' = [sends EXCEPT ![k].pc = "delay",
                                    ![k].clean = @ /\ outcome = "ok"]
          /\ SendWrites(k)
     ELSE SendCaught(k)

\* updateState of 1244 settles; its failure is caught at 1250
ReplaySettle(k, ok) ==
  /\ k \in 1..Len(sends)
  /\ sends[k].pc = "replay"
  /\ sends' = [sends EXCEPT ![k].pc = "delay", ![k].clean = @ /\ ok]
  /\ SendWrites(k)

\* requestAnimationFrame and the 100 ms timer have fired (1267-1279, 1289-1301)
DelayedSubmit(k) ==
  /\ k \in 1..Len(sends)
  /\ sends[k].pc = "delay"
  /\ sends' = [Issue(k, Op("submit", buildSubmitConfig(sends[k].newId,
                                                         sends[k].resolved)))
                 EXCEPT ![k].pc = "done"]
  /\ UNCHANGED sendFrame

\* ------------------------------------------- exposed list (1435-1439)
\* a held fallback list is exposed whatever the execution store holds:
\* variant of ExposedMessages
ExposedMessagesFallbackFirst ==
  IF serviceOnlyThreadId # NULL
  THEN [source |-> "service", length |-> Len(serviceOnlyMessages)]
  ELSE IF fallbackMessagesRef > 0
  THEN [source |-> "fallback", length |-> fallbackMessagesRef]
  ELSE [source |-> "stream", length |-> streamMessageCount]

\* `messages`: which list is exposed, and its length
ExposedMessages ==
  IF serviceOnlyThreadId # NULL
  THEN [source |-> "service", length |-> Len(serviceOnlyMessages)]
  ELSE IF fallbackMessagesRef > 0 /\ streamMessageCount = 0 /\ ~isThreadLoading
  THEN [source |-> "fallback", length |-> fallbackMessagesRef]
  ELSE [source |-> "stream", length |-> streamMessageCount]

\* ------------------------------------------- specifications of useChat
InitUseChat == IdlePersist /\ InitChat

ResolveSteps ==
  \/ \E a \in 1..Len(attempts), o \in {"ok", "notfound", "status", "network"},
        l \in {NULL, LinkedId(UuidA), LinkedId(UuidB)}, f \in BOOLEAN :
       FetchRespond(a, o, l, f)
  \/ \E a \in 1..Len(attempts) : RestoreSettle(a)

NextResolve ==
  \/ \E raw \in RawIds \cup {ShortHexId} : Navigate(raw)
  \/ \E token \in BOOLEAN : TokenChange(token)
  \/ ResolveSteps

SpecResolve == InitUseChat /\ [][NextResolve]_vars

FallbackSteps ==
  \/ CheckTimeoutFire
  \/ \E i \in 1..Len(fallbackLoads), o \in {"messages", "empty", "failed"},
        n \in 1..MaxHistory : FallbackRespond(i, o, n)

NextFallback ==
  \/ \E raw \in RawIds : Navigate(raw)
  \/ ResolveSteps
  \/ \E b \in BOOLEAN : StreamLoading(b)
  \/ StreamPopulate
  \/ FallbackSteps

SpecFallback == InitUseChat /\ [][NextFallback]_vars

SendSteps ==
  \/ \E k \in 1..Len(sends), ok \in BOOLEAN : CreateThreadRespond(k, ok)
  \/ \E k \in 1..Len(sends), o \in {"ok", "status", "rejected"} : LinkRespond(k, o)
  \/ \E k \in 1..Len(sends), o \in {"ok", "status", "rejected"}, n \in 0..MaxHistory :
       HistoryRespond(k, o, n)
  \/ \E k \in 1..Len(sends), ok \in BOOLEAN : ReplaySettle(k, ok)
  \/ \E k \in 1..Len(sends) : DelayedSubmit(k)

NextSend ==
  \/ \E raw \in {UuidA} : Navigate(raw)
  \/ ResolveSteps
  \/ \E assistant \in BOOLEAN : SendMessage(assistant)
  \/ SendSteps

SpecSend == InitUseChat /\ [][NextSend]_vars

ServiceSteps ==
  \E i \in 1..Len(serviceLoads), o \in {"ok", "failed"},
     p \in Orders(Record(UuidA)) \cup Orders(Record(UuidB)) : ServiceRespond(i, o, p)

NextService ==
  \/ \E raw \in {NULL, UuidA, UuidB} : Navigate(raw)
  \/ ResolveSteps
  \/ ServiceSteps

SpecService == InitUseChat /\ [][NextService]_vars

\* the persisted messages a record can hold, by what the conversion reads
StoredMessages ==
  { StoredMessage(1, 1, st, k, pr, tc) :
      st \in {"none", "human", "ai", "tool", "system"},
      k \in {"text", "tool_call"},
      pr \in {"none", "user", "agent", "tool"},
      tc \in {"none", "call-1"} }

\* the i-th GET of the service-only effect answers (713-831) with a record
\* that holds the one message msg
ServiceRespondWith(i, msg) ==
  /\ i \in 1..Len(serviceLoads)
  /\ msg \in StoredMessages
  /\ serviceOnlyMessages' = ConvertedMessages(<< msg >>)
  /\ isLoadingServiceMessages' = FALSE
  /\ serviceLoads' = RemoveAt(serviceLoads, i)
  /\ lastServiceAnswer' = "ok"
  /\ storedRecord' = << msg >>
  /\ UNCHANGED << persistVars, listVars, resolveVars, fallbackVars, sendVars >>

\* SpecConvert: persistent-only threads whose record holds any one message
NextConvert ==
  \/ \E raw \in {NULL, UuidA} : Navigate(raw)
  \/ ResolveSteps
  \/ \E i \in 1..Len(serviceLoads), msg \in StoredMessages : ServiceRespondWith(i, msg)

SpecConvert == InitUseChat /\ [][NextConvert]_vars

\* ======================================================================
\* Part VI: the thread list, useThreads and ThreadList.  useSWRInfinite is
\* taken by its contract: size changes through setSize only and returns to 1
\* with data undefined when the key of the first page changes; mutate()
\* revalidates the pages and leaves size; a fetcher that throws leaves data.
\* A page is kept by its first item and by whether it is full (20 items).
\* ======================================================================

\* statuses of the persistent store; "archived" stands for a value outside
\* the declared type
ThreadServiceStatuses == {"open", "paused", "closed", "archived"}

\* Thread["status"] of the execution store
LangGraphStatuses == {"idle", "busy", "interrupted", "error"}

\* paused threads are listed as idle: variant of
\* mapThreadServiceStatusToLangGraphStatus
mapThreadServiceStatusAllIdle(status) == "idle"

\* mapThreadServiceStatusToLangGraphStatus (22-36)
mapThreadServiceStatusToLangGraphStatus(status) ==
  CASE status = "open" -> "idle"
    [] status = "paused" -> "interrupted"
    [] status = "closed" -> "idle"
    [] OTHER -> "idle"

\* mapLangGraphStatusToThreadServiceStatus (38-54); "none" is undefined
mapLangGraphStatusToThreadServiceStatus(status) ==
  CASE status = "idle" -> "open"
    [] status = "interrupted" -> "paused"
    [] status = "error" -> "none"
    [] status = "busy" -> "open"
    [] OTHER -> "none"

\* the status parameter of the request for one page: threadServiceStatus,
\* appended when defined (104, 134-136), or status as it is (200)
StatusParam(kind, status) ==
  IF kind = "threadservice" THEN mapLangGraphStatusToThreadServiceStatus(status)
  ELSE IF status = "all" THEN "none" ELSE status

\* the status filters of the select of ThreadList (807-853)
StatusFilters == {"all", "idle", "completed", "busy", "interrupted", "error"}

\* the status prop ThreadList gives useThreads (275-283)
StatusProp(statusFilter) ==
  IF statusFilter = "completed" THEN "idle" ELSE statusFilter

\* the key function (84-118): the store a page is fetched from
KeyKind(token) == IF token THEN "threadservice" ELSE "langgraph"

\* a failed fetch from the persistent store is retried on the execution
\* store: variant of QueriedStores
QueriedStoresWithFallback(kind, outcome) ==
  IF kind = "threadservice" /\ outcome # "ok" THEN {"threadservice", "langgraph"}
  ELSE {kind}

\* the stores the fetcher queries for one page (119-246)
QueriedStores(kind, outcome) == {kind}

\* the page the thread-service fetcher returns (133-181): the mapped threads
\* of a parsed 2xx answer, the empty list for an unparsable body, another
\* status or a rejected fetch
ThreadServicePage(outcome, raws, full) ==
  [kind |-> "threadservice", outcome |-> outcome,
   items |-> IF outcome = "ok"
             THEN [i \in 1..Len(raws) |->
                     [raw |-> raws[i],
                      status |-> mapThreadServiceStatusToLangGraphStatus(raws[i])]]
             ELSE << >>,
   more |-> outcome = "ok" /\ full]

\* the page the execution-store fetcher returns (182-245): status as it is
LangGraphPage(raws, full) ==
  [kind |-> "langgraph", outcome |-> "ok",
   items |-> [i \in 1..Len(raws) |-> [raw |-> raws[i], status |-> raws[i]]],
   more |-> full]

\* the answers a store can give for a page: no thread, or a first thread
RawPages(kind) ==
  {<< >>} \cup { << st >> : st \in IF kind = "threadservice" THEN ThreadServiceStatuses
                                   ELSE LangGraphStatuses }

\* 632-637: preservedSizeRef after the effect that stores the size
StoreSize(preserved, size, data) ==
  IF size > 0 /\ data # << >> THEN size ELSE preserved

\* 682-692: the size after the effect that restores the preserved size
RestoreSize(preserved, size) ==
  IF preserved # 0 /\ size < preserved THEN preserved ELSE size

\* the revalidation starts from the first page only: variant of CurrentSize
CurrentSizeFirstPage(preserved, size) == 1

\* 644: preservedSizeRef.current ?? currentThreads.size
CurrentSize(preserved, size) == IF preserved # 0 THEN preserved ELSE size

\* the pages of data that size still covers
HeldPages(data, size) == SubSeq(data, 1, IF Len(data) < size THEN Len(data) ELSE size)

\* one render of ThreadList with size size1 and data data1, preservedSizeRef
\* being preserved: the effect of 632-637 runs when size or data changed, then
\* the effect of 682-692 when the thread or size changed; its setSize renders
\* once more
ListCommit(preserved, size1, data1, threadChanged) ==
  LET stored   == IF size1 # listSize \/ data1 # listData
                  THEN StoreSize(preserved, size1, data1) ELSE preserved
      size2    == IF threadChanged \/ size1 # listSize
                  THEN RestoreSize(stored, size1) ELSE size1
  IN /\ listSize' = size2
     /\ listData' = HeldPages(data1, size2)
     /\ preservedSizeRef' = IF size2 # size1 THEN StoreSize(stored, size2, data1)
                            ELSE stored

listFrame == << persistVars, resolveVars, fallbackVars, sendVars, serviceVars,
               observedVars >>

\* page i of the current key is fetched, for the first time or again
FetchPage(i, outcome, raws, full) ==
  /\ i \in 1..listSize
  /\ i <= Len(listData) + 1
  /\ i > 1 => listData[i - 1].items # << >>
  /\ outcome \in {"ok", "unparsable", "status", "network"}
  /\ raws \in RawPages(KeyKind(listToken))
  /\ raws = << >> => ~full
  /\ outcome # "ok" => raws = << >>
  \* a store that is given a status parameter answers with threads of that status
  /\ \A j \in 1..Len(raws) :
       StatusParam(KeyKind(listToken), listStatus) \in {"none", raws[j]}
  /\ LET kind == KeyKind(listToken)
         page == IF kind = "threadservice" THEN ThreadServicePage(outcome, raws, full)
                 ELSE LangGraphPage(raws, full)
         put   == IF i <= Len(listData) THEN [listData EXCEPT ![i] = page]
                  ELSE Append(listData, page)
         \* the key of the page after an empty page is null (91): the pages
         \* after it are not part of data
         data1 == IF page.items = << >> THEN SubSeq(put, 1, i) ELSE put
     IN /\ listQueries' = listQueries \cup
             { [store |-> st, authed |-> listToken] : st \in QueriedStores(kind, outcome) }
        /\ IF kind = "langgraph" /\ outcome # "ok"
           THEN UNCHANGED << listSize, listData, preservedSizeRef >>
           ELSE ListCommit(preservedSizeRef, listSize, data1, FALSE)
  /\ UNCHANGED << listToken, listStatus, sizeChecks, listEvents >>
  /\ UNCHANGED listFrame

\* "Load More" (1133) and the automatic loader (524): setSize(size + 1), when
\* the last page is held and full
LoadMore ==
  /\ listSize < MaxPages
  /\ Len(listData) >= listSize
  /\ listData[Len(listData)].more
  /\ ListCommit(preservedSizeRef, listSize + 1, listData, FALSE)
  /\ UNCHANGED << listToken, listStatus, sizeChecks, listQueries, listEvents >>
  /\ UNCHANGED listFrame

\* the access token appears or disappears: the key of the first page changes
KeyChange ==
  /\ listEvents < MaxListEvents
  /\ listEvents' = listEvents + 1
  /\ listToken' = ~listToken
  /\ ListCommit(preservedSizeRef, 1, << >>, FALSE)
  /\ UNCHANGED << listStatus, sizeChecks, listQueries >>
  /\ UNCHANGED listFrame

\* currentThreadId changes
ThreadIdChange ==
  /\ listEvents < MaxListEvents
  /\ listEvents' = listEvents + 1
  /\ ListCommit(preservedSizeRef, listSize, listData, TRUE)
  /\ UNCHANGED << listToken, listStatus, sizeChecks, listQueries >>
  /\ UNCHANGED listFrame

\* mutateFn (639-674): setSize(currentSize), mutate(), and the two delayed
\* checks (requestAnimationFrame, 100 ms timer)
MutateFn ==
  /\ listEvents < MaxListEvents
  /\ listEvents' = listEvents + 1
  /\ LET currentSize == CurrentSize(preservedSizeRef, listSize) IN
     /\ ListCommit(currentSize, currentSize, listData, FALSE)
     /\ sizeChecks' = sizeChecks \o << currentSize, currentSize >>
  /\ UNCHANGED << listToken, listStatus, listQueries >>
  /\ UNCHANGED listFrame

\* checkAndRestoreSize (659-665) runs
SizeCheckFire(i) ==
  /\ i \in 1..Len(sizeChecks)
  /\ sizeChecks' = RemoveAt(sizeChecks, i)
  /\ IF listSize < sizeChecks[i]
     THEN ListCommit(sizeChecks[i], sizeChecks[i], listData, FALSE)
     ELSE UNCHANGED << listSize, listData, preservedSizeRef >>
  /\ UNCHANGED << listToken, listStatus, listQueries, listEvents >>
  /\ UNCHANGED listFrame

NextList ==
  \/ \E i \in 1..MaxPages, o \in {"ok", "unparsable", "status", "network"},
        r \in RawPages("threadservice") \cup RawPages("langgraph"), f \in BOOLEAN :
       FetchPage(i, o, r, f)
  \/ LoadMore
  \/ KeyChange
  \/ ThreadIdChange
  \/ MutateFn
  \/ \E i \in 1..Len(sizeChecks) : SizeCheckFire(i)

SpecList == InitUseChat /\ [][NextList]_vars

\* the user picks another status filter (809): props.status changes and with
\* it the key of the first page
StatusChange(statusFilter) ==
  /\ statusFilter \in StatusFilters
  /\ listEvents < MaxListEvents
  /\ StatusProp(statusFilter) # listStatus
  /\ listEvents' = listEvents + 1
  /\ listStatus' = StatusProp(statusFilter)
  /\ ListCommit(preservedSizeRef, 1, << >>, FALSE)
  /\ UNCHANGED << listToken, sizeChecks, listQueries >>
  /\ UNCHANGED listFrame

\* SpecFilter: the list under changes of the status filter and of the token
NextFilter ==
  \/ \E i \in 1..MaxPages, o \in {"ok", "unparsable", "status", "network"},
        r \in RawPages("threadservice") \cup RawPages("langgraph"), f \in BOOLEAN :
       FetchPage(i, o, r, f)
  \/ LoadMore
  \/ KeyChange
  \/ \E sf \in StatusFilters : StatusChange(sf)

SpecFilter == InitUseChat /\ [][NextFilter]_vars

\* ======================================================================
\* Part VIII: the callbacks useChat gives to useStream (903-915):
\* handleThreadIdChange (672-683) and handleStreamError (835-901).
\* ======================================================================

\* the last request of call k is a submit that names no thread
SubmittedWithoutThread(k) ==
  /\ sends[k].pc = "done"
  /\ sends[k].log # << >>
  /\ sends[k].log[Len(sends[k].log)] = Op("submit", NULL)

\* the ids the execution store may give a thread it creates: it names its
\* threads itself, in its own format or in the five-group format
StoreIds == {NewExecId(CreatedCount + 1), UuidB}

\* the execution store, which held no thread, has created one for the submit of
\* call k and reports it: handleThreadIdChange (675-681) writes resolvedThreadId
\* and the query state, and the resolution effect runs for the new raw
\* identifier (550-577) with serviceOnlyThreadId as it was
ThreadIdChanged(k, newId) ==
  /\ k \in 1..Len(sends)
  /\ SubmittedWithoutThread(k)
  /\ resolvedThreadId = NULL
  /\ newId \in StoreIds
  /\ navigations < MaxNavigations
  /\ navigations' = navigations + 1
  /\ sends' = [sends EXCEPT ![k].pc = "reported"]
  /\ threadId' = newId
  /\ LET cleaned == ResolveCleanup(attempts, resolveCleanup) IN
     IF ~isValidUUID(newId) \/ ~accessToken
     THEN /\ attempts' = cleaned
          /\ resolveCleanup' = 0
          /\ ChatCommit(newId, NULL, fallbackThreadId, isThreadLoading, accessToken,
                        fallbackMessagesRef)
     ELSE /\ attempts' = Append(cleaned, NewAttempt(newId))
          /\ resolveCleanup' = Len(attempts) + 1
          /\ ChatCommit(newId, serviceOnlyThreadId, fallbackThreadId, isThreadLoading,
                        accessToken, fallbackMessagesRef)
  /\ UNCHANGED << accessToken, staleWrites, streamMessageCount, streamChanges, restVars >>

\* handleStreamError with a 404 (843-871): the thread of the stream does not
\* exist in the execution store; the thread becomes read-only under its
\* fallback target, or under its own id when that is in the five-group format
StreamNotFoundReadOnly ==
  /\ streamChanges < MaxStreamChanges
  /\ resolvedThreadId # NULL
  /\ serviceOnlyThreadId = NULL
  /\ fallbackThreadId # NULL \/ (isValidUUID(resolvedThreadId) /\ threadId = resolvedThreadId)
  /\ streamChanges' = streamChanges + 1
  /\ ChatCommit(NULL,
                IF fallbackThreadId # NULL THEN fallbackThreadId ELSE resolvedThreadId,
                fallbackThreadId, isThreadLoading, accessToken, fallbackMessagesRef)
  /\ UNCHANGED << accessToken, threadId, attempts, resolveCleanup, navigations,
                  staleWrites, streamMessageCount >>
  /\ UNCHANGED << restVars, sendVars >>

\* handleStreamError with a 404 (873-878): setThreadId(null), and the
\* resolution effect runs for no thread
StreamNotFoundClear ==
  /\ navigations < MaxNavigations
  /\ resolvedThreadId # NULL
  /\ serviceOnlyThreadId = NULL
  /\ fallbackThreadId = NULL
  /\ ~(isValidUUID(resolvedThreadId) /\ threadId = resolvedThreadId)
  /\ threadId # NULL
  /\ ResolveEffect(NULL, accessToken)

NextIdentity ==
  \/ Navigate(UuidA)
  \/ ResolveSteps
  \/ SendMessage(TRUE)
  \/ \E k \in 1..Len(sends), ok \in BOOLEAN : CreateThreadRespond(k, ok)
  \/ \E k \in 1..Len(sends), id \in StoreIds : ThreadIdChanged(k, id)
  \/ StreamNotFoundReadOnly
  \/ StreamNotFoundClear

\* SpecIdentity: the resolver with the two callbacks; of the upgrade path of
\* sendMessage only client.threads.create is answered (SpecSend steps the rest)
SpecIdentity == InitUseChat /\ [][NextIdentity]_vars

\* ======================================================================
\* Part VII: ChatInterface (116, 196-220) mounts useThreadPersistence with the
\* raw identifier of the query state, the one useChat resolves, and not with
\* resolvedThreadId: in SpecOpen the thread of the hook of Part I, THREAD, is
\* threadId.  The durable map holds no entry for it and no record of the
\* store carries it as its execution id.
\* ======================================================================

\* the user opens a thread before the hook takes its identifier
OpenNavigate(raw) ==
  /\ mounted = "new"
  /\ Navigate(raw)

\* the first commit of the hook with a thread identifier (226-235, 241-243)
OpenMount ==
  /\ threadId # NULL
  /\ Mount

NextOpen ==
  \/ \E raw \in {UuidA, NativeId} : OpenNavigate(raw)
  \/ ResolveSteps
  \/ OpenMount
  \/ PropChange
  \/ \E b \in BOOLEAN : HealthResolve(b)
  \/ CreationSteps

SpecOpen == InitUseChat /\ [][NextOpen]_vars

\* every request of sendMessage settles, and the animation frame and the
\* 100 ms timer of 1267-1279 fire: no step of a call stays pending forever
SpecSendLive == InitUseChat /\ [][NextSend]_vars /\ WF_vars(SendSteps)

\* ----------------------------------------------------------------------
\* C6: after the raw identifier (or another input of the effect) has changed,
\* the attempt started before the change writes none of resolvedThreadId,
\* serviceOnlyThreadId, fallbackThreadId, at any of its continuations.
C6_StaleAttemptNeverWrites == staleWrites = {}

\* the raw identifier is resolved to the execution id its persistent record
\* links, and that record is the fallback target
LinkedThreadShown ==
  /\ threadId # NULL
  /\ fallbackThreadId = threadId
  /\ resolvedThreadId = LinkedId(threadId)
  /\ serviceOnlyThreadId = NULL

\* the fallback loader never issues a second GET while the resolved thread
\* stays the same
FallbackAtMostOnce == fallbackGets <= 1

\* ----------------------------------------------------------------------
\* C7: for a resolved thread with a linked persistent id whose execution store
\* has finished loading with zero messages, exactly one GET /threads/{id} has
\* been issued for history recovery, whatever re-renders, effect re-runs and
\* delayed checks happened, and whatever that load answered.
C7_ExactlyOneFallbackGet ==
  (LinkedThreadShown /\ storeLoaded /\ ~isThreadLoading /\ streamMessageCount = 0
     /\ fallbackLoads = << >>)
    => fallbackGets = 1

\* the k-th call took the upgrade path and none of its steps failed
CleanUpgrade(k) == sends[k].upgrade /\ sends[k].clean

\* ----------------------------------------------------------------------
\* C10: when sendMessage runs on a persistent-only thread and every step
\* succeeds, its requests are issued in the order create, PATCH with the new
\* execution id, replay of the persisted messages into the new execution
\* thread (when there are any), and only then the submit of the new message,
\* whose thread_id is the new execution id.
C10_UpgradeOrder ==
  \A k \in 1..Len(sends) :
    LET log == sends[k].log IN
    \A i \in 1..Len(log) :
      (log[i].op = "submit" /\ CleanUpgrade(k)) =>
        /\ sends[k].newId # NULL
        /\ log[i].thread = sends[k].newId
        /\ \E c \in 1..(i - 1), p \in 1..(i - 1) :
             /\ c < p
             /\ log[c] = Op("create", NULL)
             /\ log[p] = Op("patch", sends[k].newId)
             /\ sends[k].existing > 0 =>
                  \E r \in (p + 1)..(i - 1) : log[r] = Op("replay", sends[k].newId)

\* a call that upgraded a thread with persisted messages has submitted
C10_Witness ==
  \E k \in 1..Len(sends) :
    /\ CleanUpgrade(k)
    /\ sends[k].existing > 0
    /\ sends[k].pc = "done"
    /\ \E i \in 1..Len(sends[k].log) : sends[k].log[i].op = "submit"
\* the k-th call was made on a persistent-only thread (1164)
PersistentOnly(k) == sends[k].persistent # NULL /\ sends[k].resolved = NULL

\* stream.submit calls of the k-th call so far
Submits(k) ==
  Cardinality({ i \in 1..Len(sends[k].log) : sends[k].log[i].op = "submit" })

\* a call that took the upgrade path never submits twice, has submitted once
\* when it has finished, and finishes, whichever of its steps fails
UpgradeNeverDrops ==
  \A k \in 1..MaxSends :
    /\ [](k <= Len(sends) /\ sends[k].upgrade
           => /\ Submits(k) <= 1
              /\ sends[k].pc = "done" => Submits(k) = 1)
    /\ [](k <= Len(sends) /\ sends[k].upgrade
           => <>(k <= Len(sends) /\ sends[k].pc = "done" /\ Submits(k) = 1))

\* ----------------------------------------------------------------------
\* C11: a call of sendMessage on a persistent-only thread never submits the
\* new message twice, and once the call has finished, whichever of creation,
\* linking PATCH, history GET or replay failed, it has submitted the message
\* exactly once.
C11_InputNeverDropped ==
  \A k \in 1..Len(sends) :
    PersistentOnly(k) => /\ Submits(k) <= 1
                         /\ sends[k].pc = "done" => Submits(k) = 1

\* the a-th attempt of the resolver ends in this step
AttemptEnds(a) == attempts[a].pc # "done" /\ attempts'[a].pc = "done"

\* ----------------------------------------------------------------------
\* C12: when the fetch of a persistent-format id has answered with the record
\* and the attempt, still current, ends: with a linked execution id the
\* resolved id is that value, the thread is not read-only and the persistent
\* id is the fallback target; without one the resolved id is null, the thread
\* is persistent-only and there is no fallback target.
C12_ResolvedFromRecord ==
  [][\A a \in 1..Len(attempts) :
       (AttemptEnds(a) /\ attempts[a].isCurrentRequest /\ attempts'[a].outcome = "ok")
       => IF attempts'[a].langgraphId # NULL
          THEN /\ resolvedThreadId' = attempts'[a].langgraphId
               /\ serviceOnlyThreadId' = NULL
               /\ fallbackThreadId' = attempts[a].raw
          ELSE /\ resolvedThreadId' = NULL
               /\ serviceOnlyThreadId' = attempts[a].raw
               /\ fallbackThreadId' = NULL]_vars

\* one record without a linked id was resolved to a persistent-only thread,
\* and the record of the current identifier to its linked execution id
C12_Witness ==
  /\ \E a \in 1..Len(attempts) :
       attempts[a].outcome = "ok" /\ attempts[a].langgraphId = NULL
  /\ \E a \in 1..Len(attempts) :
       /\ attempts[a].outcome = "ok" /\ attempts[a].pc = "done"
       /\ attempts[a].isCurrentRequest /\ attempts[a].raw = threadId
       /\ attempts[a].langgraphId # NULL
       /\ resolvedThreadId = attempts[a].langgraphId
       /\ serviceOnlyThreadId = NULL /\ fallbackThreadId = threadId

\* ----------------------------------------------------------------------
\* C13: a run of the resolver for a raw identifier that is not of the
\* persistent-store format starts no fetch, sets the resolved id to the raw
\* identifier and clears the read-only marker; no fetch was ever started for
\* such an identifier.
C13_NativeIdUsedDirectly ==
  /\ [](\A a \in 1..Len(attempts) :
          attempts[a].raw.hex /\ attempts[a].raw.groups = UUID_PATTERN)
  /\ [][(navigations' # navigations /\ threadId' # NULL
           /\ ~(threadId'.hex /\ threadId'.groups = UUID_PATTERN))
         => /\ Len(attempts') = Len(attempts)
            /\ resolvedThreadId' = threadId'
            /\ serviceOnlyThreadId' = NULL]_vars

\* after a persistent-only thread, an identifier of another format is shown
C13_Witness ==
  /\ threadId \in {NativeId, ShortHexId}
  /\ resolvedThreadId = threadId /\ serviceOnlyThreadId = NULL
  /\ \E a \in 1..Len(attempts) :
       attempts[a].outcome = "ok" /\ attempts[a].langgraphId = NULL

\* ----------------------------------------------------------------------
\* C14: when the fetch of a persistent-format id answers 404 or another
\* non-2xx status, or is rejected, and the attempt, still current, ends, the
\* resolved id is the raw identifier (never null) and the thread is not
\* read-only.
C14_ErrorFallsBackToRaw ==
  [][\A a \in 1..Len(attempts) :
       (AttemptEnds(a) /\ attempts[a].isCurrentRequest
          /\ attempts'[a].outcome \in {"notfound", "status", "network"})
       => /\ resolvedThreadId' = attempts[a].raw
          /\ resolvedThreadId' # NULL
          /\ serviceOnlyThreadId' = NULL]_vars

\* a rejected fetch of the current identifier, after one answered 404
C14_Witness ==
  /\ \E a \in 1..Len(attempts) : attempts[a].outcome = "notfound"
  /\ \E a \in 1..Len(attempts) :
       /\ attempts[a].outcome = "network" /\ attempts[a].isCurrentRequest
       /\ attempts[a].raw = threadId
       /\ resolvedThreadId = threadId /\ serviceOnlyThreadId = NULL

\* the creation time the record of thread t holds for the message with id m
CreatedAt(t, m) ==
  LET i == CHOOSE i \in 1..Len(Record(t)) : Record(t)[i].id = m
  IN Record(t)[i].created_at

\* the list l holds one message per persisted message of thread t, with the
\* same ids, in non-decreasing creation time
HistoryOf(l, t) ==
  /\ Len(l) = Len(Record(t))
  /\ { l[i].id : i \in 1..Len(l) } = { Record(t)[i].id : i \in 1..Len(Record(t)) }
  /\ \A i, j \in 1..Len(l) : i < j => CreatedAt(t, l[i].id) <= CreatedAt(t, l[j].id)

\* ----------------------------------------------------------------------
\* C15: when a persistent-only thread is shown, no load of the service-only
\* effect is pending and the latest one was answered with a record, the
\* exposed list holds exactly one message per persisted message of the record
\* of that thread, with the same ids, in non-decreasing creation time.
C15_PersistentOnlyHistory ==
  (serviceOnlyThreadId # NULL /\ serviceLoads = << >> /\ lastServiceAnswer = "ok")
    => HistoryOf(serviceOnlyMessages, serviceOnlyThreadId)

\* ----------------------------------------------------------------------
\* C16: for a thread that is not persistent-only, the fallback list is exposed
\* only while the execution store is not loading and holds no message, and
\* whenever the execution store holds a message the exposed list is the
\* execution store's.
C16_FallbackPrecedence ==
  serviceOnlyThreadId = NULL =>
    /\ ExposedMessages.source = "fallback"
         => ~isThreadLoading /\ streamMessageCount = 0
    /\ streamMessageCount > 0
         => /\ ExposedMessages.source = "stream"
            /\ ExposedMessages.length = streamMessageCount

\* a fallback list is held and the execution store has produced a message
C16_Witness ==
  /\ serviceOnlyThreadId = NULL /\ resolvedThreadId # NULL
  /\ fallbackMessagesRef > 0 /\ streamMessageCount > 0
  /\ ExposedMessages.source = "stream"

\* PATCH /threads/{id} requests of syncFiles not answered yet
PatchesInFlight ==
  Cardinality({ r \in 1..Len(fileRuns) : fileRuns[r].pc = "patch" })

\* ----------------------------------------------------------------------
\* C17: in a step taken after the health probe of the session has returned
\* negative, the sync engine issues no POST /threads, no PATCH /threads/{id}
\* and pushes no message, also for a thread whose persistent id is known from
\* the local durable map.
C17_HealthGate ==
  [][healthCheckRef = "unhealthy"
       => /\ postCount' = postCount
          /\ PatchesInFlight' <= PatchesInFlight
          /\ syncedIdsRef' = syncedIdsRef]_vars

\* ----------------------------------------------------------------------
\* C18: every page fetched while the user is authenticated was fetched from
\* the persistent store only, and a page whose fetch failed (unparsable body,
\* non-2xx status, rejected fetch) is the empty list.
C18_ListFromPersistentStoreOnly ==
  /\ \A q \in listQueries : q.authed => q.store = "threadservice"
  /\ listToken =>
       \A i \in 1..Len(listData) :
         /\ listData[i].kind = "threadservice"
         /\ listData[i].outcome # "ok" => listData[i].items = << >>

\* an authenticated list holds a first page and a second page whose fetch failed
C18_Witness ==
  /\ listToken /\ Len(listData) = 2
  /\ listData[1].outcome = "ok" /\ listData[2].outcome # "ok"
  /\ listData[2].items = << >>
  /\ \A q \in listQueries : q.store = "threadservice"

C20_StatusMapping ==
  \A i \in 1..Len(listData) : \A j \in 1..Len(listData[i].items) :
    LET item == listData[i].items[j] IN
    listData[i].kind = "threadservice" =>
      /\ item.status \in LangGraphStatuses
      /\ item.raw = "open" => item.status = "idle"
      /\ item.raw = "paused" => item.status = "interrupted"
      /\ item.raw = "closed" => item.status = "idle"

\* a paused thread and a closed thread are listed
C20_Witness ==
  /\ Len(listData) = 2
  /\ listData[1].kind = "threadservice" /\ listData[2].kind = "threadservice"
  /\ listData[1].items # << >> /\ listData[2].items # << >>
  /\ listData[1].items[1] = [raw |-> "paused", status |-> "interrupted"]
  /\ listData[2].items[1] = [raw |-> "closed", status |-> "idle"]

\* ----------------------------------------------------------------------
\* C22 (as claimed; SpecCreate): after a 409, once the discovery of a create
\* flow has found the record of the thread and no create flow is running any
\* more, the thread of the mounted hook has a known persistent id.
C22_ConflictAdoptsMatch ==
  ( /\ mounted = "mounted"
    /\ \A c \in 1..Len(creations) : creations[c].pc = "done"
    /\ \E c \in 1..Len(creations) : creations[c].match # NoId )
  => threadIdMapRef # NoId

\* ----------------------------------------------------------------------
\* C23 (Spec): no redundant file push - every PATCH for files that a debounce
\* timer, a lock wait or a teardown issues carries a file set that serialises
\* differently from the last successfully synced snapshot at that moment; a
\* file set identical to the snapshot is never pushed.
C23_NoRedundantPush ==
  [][\A r \in 1..Len(fileRuns') :
       ( /\ fileRuns'[r].pc = "patch"
         /\ r <= Len(fileRuns) => fileRuns[r].pc # "patch" )
       => Stringify(fileRuns'[r].files) # Stringify(syncedFilesRef)]_vars

\* the debounce timer of a mapped thread fired on a non-empty file set equal to
\* the snapshot, and no PATCH was issued
C23_Witness ==
  /\ burst.len >= 1 /\ burst.fired /\ burst.mapped /\ ~burst.differs
  /\ burst.patches = 0
  /\ files # NoFiles /\ files = syncedFilesRef
  /\ \A r \in 1..Len(fileRuns) : fileRuns[r].pc # "patch"

\* the passes that pass p waits for, directly or through the passes they wait
\* for, in at most n steps
RECURSIVE WaitsOn(_, _)
WaitsOn(p, n) ==
  IF n = 0 \/ syncPasses[p].pc # "waitPrev" THEN {}
  ELSE {syncPasses[p].awaiting} \cup WaitsOn(syncPasses[p].awaiting, n - 1)

\* ----------------------------------------------------------------------
\* C24 (as claimed; SpecSync): a pass that waits for the tracked sync
\* operation never waits on its own completion promise, directly or through a
\* cycle of passes waiting on each other.
C24_PassNeverWaitsOnItself ==
  \A p \in 1..Len(syncPasses) : p \notin WaitsOn(p, Len(syncPasses))

\* no resolution attempt, fallback load or delayed check is outstanding
ChatSettled ==
  /\ \A a \in 1..Len(attempts) : attempts[a].pc = "done"
  /\ fallbackLoads = << >>
  /\ checkTimeout = << >>

\* ----------------------------------------------------------------------
\* C27 (as claimed; SpecFallback): no cross-thread history - once the
\* resolution of the current raw identifier has settled, a fallback list that
\* is exposed belongs to the current thread: the fallback target is the
\* current raw identifier.
C27_NoCrossThreadHistory ==
  (ChatSettled /\ ExposedMessages.source = "fallback") => fallbackThreadId = threadId

\* the persistent store has answered the lookup of the current raw identifier
\* with its record
RecordExists ==
  \E a \in 1..Len(attempts) :
    attempts[a].raw = threadId /\ attempts[a].outcome = "ok"

\* ----------------------------------------------------------------------
\* C25 (as claimed; SpecOpen): when the raw thread identifier is the id of a
\* record that exists in the persistent store, the sync engine issues no
\* POST /threads for it.
C25_NoSecondRecord ==
  (mounted = "mounted" /\ isValidUUID(threadId) /\ RecordExists) => postCount = 0

\* a createThread call that has not reached the end of its finally block
CreationRunning(c) == creations[c].pc \in {"health", "post", "discover"}

\* ----------------------------------------------------------------------
\* C28 (as claimed; SpecCreate): while a create flow of the current effect
\* run is running, from its start until its POST /threads (and discovery) has
\* been answered and the result recorded, the thread id is in the
\* creation-lock registry: no older flow removes the lock of that flow.
C28_LockCoversRequest ==
  (\E c \in 1..Len(creations) : CreationRunning(c) /\ ~creations[c].cancelled)
  => THREAD \in threadCreationInProgressRef

\* ----------------------------------------------------------------------
\* C31 (as claimed; SpecFallback): a fallback load that is answered when the
\* record it was started for is no longer the fallback target of the thread
\* shown does not replace the fallback message list.
C31_StaleLoadDiscarded ==
  [][\A i \in 1..Len(fallbackLoads) :
       ( /\ fallbackLoads' = RemoveAt(fallbackLoads, i)
         /\ fallbackLoads[i] # fallbackThreadId )
       => fallbackMessagesRef' = fallbackMessagesRef]_vars

\* ----------------------------------------------------------------------
\* C32 (as claimed; SpecIdentity): the resolved execution id and the
\* persistent-only marker are never both non-null.
C32_AtMostOneIdentity ==
  serviceOnlyThreadId # NULL => resolvedThreadId = NULL

\* C33: thread creation never gets stuck: while the hook is mounted the thread
\* is never without a known persistent id, marked as already attempted and
\* with no createThread call in progress
C33_CreationNeverStuck ==
  ~( /\ mounted = "mounted"
     /\ threadIdMapRef = NoId
     /\ THREAD \in createdThreadsRef
     /\ THREAD \notin threadCreationInProgressRef
     /\ \A c \in 1..Len(creations) : creations[c].pc = "done" )

\* C34: the identity mapping prevents repeat creation: while a persistent id
\* is stored for the execution id, no step issues a POST /threads for it, in
\* the mount that stored it and in every later mount that reads it back
C34_StoredIdNoPost ==
  [][lsThreadMap \notin {NoId, CorruptItem} => postCount' = postCount]_vars

\* an open that read the stored id back, re-ran the creation effect for a new
\* message and started no createThread call
C34_Witness ==
  /\ mounted = "mounted"
  /\ lsThreadMap = PreExistingId
  /\ threadIdMapRef = PreExistingId
  /\ Len(messages) > 0
  /\ creations = << >>
  /\ postCount = 0

\* C36: files are not lost to the creation race: while the hook is mounted,
\* a file set that differs from the snapshot and was never pushed is not left
\* with the persistent id known and no syncFiles call pending to push it
C36_FilesNotStranded ==
  ~( /\ mounted = "mounted"
     /\ threadIdMapRef # NoId
     /\ Stringify(files) # Stringify(syncedFilesRef)
     /\ lastPatch = << >>
     /\ \A r \in 1..Len(fileRuns) : fileRuns[r].pc = "done" )

\* C37: the recorded file snapshot tracks the newest push: whenever no PATCH
\* is in flight and the most recently issued PATCH was answered with success,
\* the snapshot equals the file set that PATCH carried
C37_SnapshotTracksNewestPush ==
  ( /\ \A r \in 1..Len(fileRuns) : fileRuns[r].pc # "patch"
    /\ lastPatch # << >>
    /\ lastPatch[3] = "ok" )
  => Stringify(syncedFilesRef) = Stringify(lastPatch[1])

\* C38: status-filtered listing is sound: when the list is requested with a
\* status filter from the persistent store, every thread summary on the pages
\* held has the requested status
C38_FilteredListSound ==
  \A i \in 1..Len(listData) :
    (listData[i].kind = "threadservice" /\ listStatus # "all")
    => \A j \in 1..Len(listData[i].items) : listData[i].items[j].status = listStatus

\* the syncFiles call of run r is in its lock wait loop (852-855)
Polling(r) == r \in 1..Len(fileRuns) /\ fileRuns[r].pc = "waitlock"

\* the runs the file effect can have started within the bounds
RunIds == 1..(2 * (MaxChanges + MaxMessages + 1))

\* C39 (SpecLive): the creation lock is always released: the step in which a
\* createThread call ends, whatever its outcome, leaves the thread out of the
\* lock registry, and every syncFiles call polling the lock leaves its wait
\* loop
C39_LockAlwaysReleased ==
  /\ [][\A c \in 1..Len(creations) :
          (creations[c].pc # "done" /\ creations'[c].pc = "done")
          => THREAD \notin threadCreationInProgressRef']_vars
  /\ \A r \in RunIds : Polling(r) ~> ~Polling(r)

\* a syncFiles call of the current effect run is polling and the createThread
\* call that held the lock has ended and released it
C39_Witness ==
  /\ \E r \in 1..Len(fileRuns) : Polling(r) /\ ~fileRuns[r].cancelled
  /\ \E c \in 1..Len(creations) : creations[c].pc = "done"
  /\ THREAD \notin threadCreationInProgressRef

\* the role the conversion is to give a persisted message: the stored source
\* type when it names a known role, otherwise the role of its participant,
\* otherwise agent
InferredRole(msg) ==
  IF msg.source_message_type \in {"human", "ai", "tool"} THEN msg.source_message_type
  ELSE CASE msg.participant = "user" -> "human"
         [] msg.participant = "tool" -> "tool"
         [] OTHER -> "ai"

\* C40: role inference when a persisted message is converted: the exposed
\* message has the stored source type when that names a known role, otherwise
\* the role of the participant, otherwise agent, and a tool message carries
\* the stored tool call id; for every source type, participant and kind
C40_RoleInference ==
  (serviceOnlyMessages # << >> /\ storedRecord # << >>)
  => /\ serviceOnlyMessages[1].type = InferredRole(storedRecord[1])
     /\ serviceOnlyMessages[1].type = "tool"
          => serviceOnlyMessages[1].tool_call_id = storedRecord[1].tool_call_id

====
